---- MODULE Spec2Model ----
(***************************************************************************)
(* A model of the JsSIP signalling core: the INVITE session (RTCSession),  *)
(* its dialogs, and the out-of-dialog REFER subscription.                  *)
(*                                                                         *)
(* Every handler of the source is one action.  A handler is written as a   *)
(* pure operator over a record `w` that holds the fields of the objects    *)
(* it touches; the action commits the record the handler returns.  The     *)
(* messages a handler sends and the events it emits are the per-step       *)
(* outputs `sent` and `emitted`; an exception it throws is `thrown`.       *)
(***************************************************************************)
EXTENDS Integers, Sequences, FiniteSets, TLC

(***************************************************************************)
(* Bounds of the model.                                                    *)
(***************************************************************************)
\* calls of answer() the application makes
MaxAnswerCalls == 2
\* saturation of the history counters (started, terminal events, BYEs)
MaxCount == 3
\* responses to the outgoing INVITE the network delivers
MaxResponses == 3
\* calls the application makes on a Refer (accept, reject, notify)
MaxReferCalls == 3
\* in-dialog requests delivered to a session, and the largest CSeq number
MaxRequests == 3
MaxCSeq == 3
\* calls the application makes on a Message
MaxMessageCalls == 3

\* calls of sendDTMF the application makes
MaxDTMFCalls == 2
\* outgoing UPDATEs that await their final response at the same time
MaxUpdates == 2

(***************************************************************************)
(* RTCSession.C: the session states.                                       *)
(***************************************************************************)
STATUS_NULL               == "Null"
STATUS_INVITE_SENT        == "InviteSent"
STATUS_1XX_RECEIVED       == "1xxReceived"
STATUS_INVITE_RECEIVED    == "InviteReceived"
STATUS_WAITING_FOR_ANSWER == "WaitingForAnswer"
STATUS_WAITING_FOR_ACK    == "WaitingForAck"
STATUS_CANCELED           == "Canceled"
STATUS_TERMINATED         == "Terminated"
STATUS_CONFIRMED          == "Confirmed"

NoDialog == "none"
NoTag    == "none"
\* To-tags the remote side may put in a response to the INVITE; the dialog id
\* of a UAC dialog is call-id + from-tag + to-tag, so the to-tag identifies it.
Tags     == {"t1", "t2"}
\* The id of the dialog an incoming INVITE creates (call-id + to-tag + from-tag).
UasDialog == "uas"

\* the handles of RTCSession.timers
TimerNames == {"userNoAnswerTimer", "expiresTimer", "invite2xxTimer", "ackTimer"}
\* armed timers whose handle has been overwritten: the four session timers and
\* the session-refresh timer of a Dialog object that is no longer referenced
TimerKinds == TimerNames \cup {"refreshLocal", "refreshRemote"}

\* Session-Expires of a message: absent, or present with refresher=uac / uas
SEValues == {"none", "uac", "uas"}

\* the status_code option of terminate(); 0 stands for "not given"
StatusCodeOptions == {0, 180, 200, 486}

\* status codes of the responses to the INVITE the model delivers
ResponseCodes == {100, 180, 200, 486}

\* the media handler steps of answer() and of sendInitialRequest()
AnswerStages == {"getUserMedia", "addStream", "createAnswer"}

\* a response to the INVITE as the session sees it
\* an in-dialog request: its method, its CSeq number, whether it has a Contact
InRequest(method, cseq, hasContact) ==
  [method |-> method, cseq |-> cseq, hasContact |-> hasContact]
NoRequest == InRequest("none", 0, FALSE)

\* Dialog.last_update_tx: the server transaction of the id-th in-dialog
\* request the model has delivered, and its state; id 0: not set
UpdateTx(id, state) == [id |-> id, state |-> state]
NoUpdateTx == UpdateTx(0, "none")

\* the values of Math.random() * 10 | 0
RandomDigits == 0..9

\* the CSeq number of the initial INVITE of an incoming session
InitialCSeq == 2

\* the timers a Reinvite keeps in this.timers; the answer timer replies 487
\* when it was set from the Expires header and 480 otherwise
ReinviteTimers == {"provisionalResponse", "answer487", "answer480",
                   "invite2xxTimer", "ackTimer"}

\* RTCSession.lastReinvite; status "none": no Reinvite yet.  sdpValidCalled,
\* answer and status_code record the calls the application has made on this
\* Reinvite (answer: which of sdpInvalid, accept, reject; status_code: the
\* one given to reject), reinviteEvents the `reinvite` events the session has
\* emitted for it.
Reinvite(st, dir, txs) ==
  [status |-> st, direction |-> dir, tx |-> txs, timers |-> {},
   sdpValidCalled |-> FALSE, answer |-> "none", status_code |-> 0,
   reinviteEvents |-> 0]
NoReinvite == Reinvite("none", "none", "none")

Response(code, to_tag, hasContact, hasBody) ==
  [code |-> code, to_tag |-> to_tag, hasContact |-> hasContact, hasBody |-> hasBody]
NoResponse == Response(0, NoTag, FALSE, FALSE)

VARIABLES
  \* ---- RTCSession fields
  status, direction, request, rtcMediaHandler, isCanceled, received_100,
  dialog, earlyDialogs, timers,
  \* ---- the session-refresh timer of session.dialog (Dialog.session_timer.timer_id)
  refresh,
  \* ---- armed timers no handle refers to any more
  orphans,
  \* ---- UA registries: ua.dialogs, ua.sessions
  uaDialogs, uaSessions,
  \* ---- the incoming INVITE: its server transaction and headers
  tx, reqExpires, reqSE,
  \* ---- the outgoing INVITE has been handed to the transport
  inviteOnWire,
  \* ---- callbacks in flight: the closures newRTCSession handed to the
  \*      application, and the media handler calls awaiting their callback
  appCallbacks, offerPending, answerChains, offerChain, answerSdpPending,
  \* ---- the response the last handler was given, and its outputs
  received, sent, emitted, thrown,
  \* ---- history of the session (observers, not program state)
  startedCount, terminalCount, lateEvent, everConfirmed, ackReceived,
  byeCount, cancelSent, newRTCSessionCount, tcCalls, tcByes, tcEnded, tcArgsOk,
  \* ---- responses to the INVITE delivered so far, answer() calls made so far
  responses, answerCalls,
  \* ---- the last handler put a Dialog under a key of ua.dialogs that held
  \*      another Dialog
  replaced,
  \* ---- fields of the Dialog in-dialog requests come through: session.dialog
  \*      or, before it, the early dialog of an incoming session (0:
  \*      remote_seqnum not set; last_invite_tx names the transaction the
  \*      dialog has cached, last_update_tx is the state of the cached one)
  remote_seqnum, remote_target, last_invite_tx, last_update_tx,
  \* ---- RTCSession.lastReinvite: the fields of that Reinvite, the state of
  \*      the server transaction of its request, its armed timers
  lastReinvite,
  \* ---- the in-dialog request the last handler was given, whether the
  \*      dialog handed it to its owner, the events Reinvite objects emitted,
  \*      the Retry-After of the reply the dialog gave (0: none)
  inRequest, handed, reinviteEmitted, retryAfter,
  \* ---- in-dialog requests delivered so far
  requests,
  \* ---- the outgoing UPDATEs: how many RequestSenders await a final
  \*      response, and the events the last handler emitted on an Update
  outUpdates

sessionVars == <<status, direction, request, rtcMediaHandler, isCanceled, received_100,
  dialog, earlyDialogs, timers, refresh, orphans, uaDialogs, uaSessions,
  tx, reqExpires, reqSE, inviteOnWire,
  appCallbacks, offerPending, answerChains, offerChain, answerSdpPending,
  received, sent, emitted, thrown,
  startedCount, terminalCount, lateEvent, everConfirmed, ackReceived,
  byeCount, cancelSent, newRTCSessionCount, tcCalls, tcByes, tcEnded, tcArgsOk,
  responses, answerCalls, replaced,
  remote_seqnum, remote_target, last_invite_tx, last_update_tx, lastReinvite,
  inRequest, handed, reinviteEmitted, retryAfter, requests, outUpdates>>

\* ---- the REFER with its implicit subscription (Refer): its fields, the
\*      non-final NOTIFYs whose 'failed' handler may still run, armed
\*      subscriptionExpired timers no handle refers to, the outputs of the last
\*      handler, and the calls the application has made so far
VARIABLES
  referKind, referDirection, closed, subscription_state, referDialog,
  accepted, rejected, expire_timer, notify_timer,
  notifiesInFlight, referOrphans,
  referSent, referEmitted, referThrown, referCalls,
  \* ---- the REFER is on the wire; the subscription has been 'terminated'
  referOnWire, wasTerminated,
  \* ---- the remote target of the dialog of the refer, and the in-dialog
  \*      request its dialog received in the last step
  referTarget, referRequest,
  \* ---- ua.refers holds the refer under its id; the `notify` events with
  \*      finalNotify true the refer has emitted to its listeners (observer)
  uaRefers, finalNotifies,
  \* ---- Refer.last_notify_body of an outgoing refer: the status code of the
  \*      sipfrag of the last NOTIFY it took (0: none), and what the last
  \*      handler gave the listeners as the final notify it made up
  last_notify_body, finalPayload,
  \* ---- the run of an outgoing out-of-dialog REFER that is accepted and
  \*      then notified twice (observer): how far it has come, with the
  \*      events, notify payloads and replies of its steps
  scenario

referVars == <<referKind, referDirection, closed, subscription_state, referDialog,
  accepted, rejected, expire_timer, notify_timer,
  notifiesInFlight, referOrphans,
  referSent, referEmitted, referThrown, referCalls, referOnWire, wasTerminated,
  referTarget, referRequest, uaRefers, finalNotifies, last_notify_body,
  finalPayload, scenario>>

\* ---- a MESSAGE (Message): its fields, the state of the non-INVITE server
\*      transaction of an incoming one, the outputs of the last handler and
\*      the calls made so far, in one record
VARIABLES message

\* ---- the DTMF queue of the session (RTCSession.tones), the pending timers
\*      of the sendDTMF closures with the position each has reached, the
\*      tones in flight, the last call with its outputs, in one record
VARIABLES dtmf

vars == <<sessionVars, referVars, message, dtmf>>

(***************************************************************************)
(* The record a handler works on, and its commit.                          *)
(***************************************************************************)
Cur == [status |-> status, direction |-> direction, request |-> request,
        rtcMediaHandler |-> rtcMediaHandler, isCanceled |-> isCanceled,
        received_100 |-> received_100, dialog |-> dialog,
        earlyDialogs |-> earlyDialogs, timers |-> timers, refresh |-> refresh,
        orphans |-> orphans, uaDialogs |-> uaDialogs, uaSessions |-> uaSessions,
        tx |-> tx, reqExpires |-> reqExpires, reqSE |-> reqSE,
        inviteOnWire |-> inviteOnWire, appCallbacks |-> appCallbacks,
        offerPending |-> offerPending, answerChains |-> answerChains,
        offerChain |-> offerChain, answerSdpPending |-> answerSdpPending,
        received |-> NoResponse,
        sent |-> <<>>, emitted |-> <<>>, thrown |-> "none",
        startedCount |-> startedCount, terminalCount |-> terminalCount,
        lateEvent |-> lateEvent, everConfirmed |-> everConfirmed,
        ackReceived |-> ackReceived, byeCount |-> byeCount,
        newRTCSessionCount |-> newRTCSessionCount,
        cancelSent |-> cancelSent,
        tcCalls |-> tcCalls, tcByes |-> tcByes, tcEnded |-> tcEnded,
        tcArgsOk |-> tcArgsOk,
        responses |-> responses, answerCalls |-> answerCalls,
        replaced |-> FALSE,
        remote_seqnum |-> remote_seqnum, remote_target |-> remote_target,
        last_invite_tx |-> last_invite_tx, last_update_tx |-> last_update_tx,
        lastReinvite |-> lastReinvite,
        inRequest |-> NoRequest, handed |-> FALSE, reinviteEmitted |-> <<>>,
        requests |-> requests,
        outUpdates |-> [outUpdates EXCEPT !.emitted = <<>>],
        retryAfter |-> 0,
        hasBody |-> FALSE, appCall |-> "none", random |-> 0,
        ret |-> TRUE]

CommitAll(w) ==
  /\ status' = w.status
  /\ direction' = w.direction
  /\ request' = w.request
  /\ rtcMediaHandler' = w.rtcMediaHandler
  /\ isCanceled' = w.isCanceled
  /\ received_100' = w.received_100
  /\ dialog' = w.dialog
  /\ earlyDialogs' = w.earlyDialogs
  /\ timers' = w.timers
  /\ refresh' = w.refresh
  /\ orphans' = w.orphans
  /\ uaDialogs' = w.uaDialogs
  /\ uaSessions' = w.uaSessions
  /\ tx' = w.tx
  /\ reqExpires' = w.reqExpires
  /\ reqSE' = w.reqSE
  /\ inviteOnWire' = w.inviteOnWire
  /\ appCallbacks' = w.appCallbacks
  /\ offerPending' = w.offerPending
  /\ answerChains' = w.answerChains
  /\ offerChain' = w.offerChain
  /\ answerSdpPending' = w.answerSdpPending
  /\ received' = w.received
  /\ sent' = w.sent
  /\ emitted' = w.emitted
  /\ thrown' = w.thrown
  /\ startedCount' = w.startedCount
  /\ terminalCount' = w.terminalCount
  /\ lateEvent' = w.lateEvent
  /\ everConfirmed' = (w.everConfirmed \/ w.status = STATUS_CONFIRMED)
  /\ ackReceived' = w.ackReceived
  /\ byeCount' = w.byeCount
  /\ newRTCSessionCount' = w.newRTCSessionCount
  /\ tcCalls' = w.tcCalls
  /\ tcByes' = w.tcByes
  /\ tcEnded' = w.tcEnded
  /\ tcArgsOk' = w.tcArgsOk
  /\ cancelSent' = w.cancelSent
  /\ UNCHANGED <<referVars, message, dtmf>>
  /\ responses' = w.responses
  /\ answerCalls' = w.answerCalls
  /\ replaced' = w.replaced
  /\ remote_seqnum' = w.remote_seqnum
  /\ remote_target' = w.remote_target
  /\ last_invite_tx' = w.last_invite_tx
  /\ last_update_tx' = w.last_update_tx
  /\ retryAfter' = w.retryAfter
  /\ lastReinvite' = w.lastReinvite
  /\ inRequest' = w.inRequest
  /\ handed' = w.handed
  /\ reinviteEmitted' = w.reinviteEmitted
  /\ requests' = w.requests
  /\ outUpdates' = w.outUpdates

\* the commit of every handler but terminate(): the run of consecutive
\* terminate() calls, if any, is over
Commit(w) ==
  CommitAll([w EXCEPT !.tcCalls = 0, !.tcByes = 0, !.tcEnded = 0, !.tcArgsOk = TRUE])

Inc(n) == IF n < MaxCount THEN n + 1 ELSE n

(***************************************************************************)
(* Outputs.                                                                *)
(***************************************************************************)
Reply(method, code) ==
  [msg |-> "reply", method |-> method, code |-> code, dialog |-> NoDialog]
Request(method, d) ==
  [msg |-> "request", method |-> method, code |-> 0, dialog |-> d]
Event(name, originator, cause) ==
  [name |-> name, originator |-> originator, cause |-> cause]

SessionEvents  == {"progress", "started", "ended", "failed"}
TerminalEvents == {"ended", "failed"}

\* a message handed to the transport
Send(w, m) ==
  [w EXCEPT !.sent = Append(@, m),
            !.byeCount = IF m.method = "BYE" /\ m.msg = "request"
                         THEN Inc(@) ELSE @,
            !.cancelSent = @ \/ (m.method = "CANCEL" /\ m.msg = "request")]

\* an exception: the rest of the handler does not run
Throw(w, e) == [w EXCEPT !.thrown = e]

\* the continuation F of a handler, skipped once an exception was thrown
Then(w, F(_)) == IF w.thrown # "none" THEN w ELSE F(w)

\* EventEmitter.emit on the session
emit(w, name, originator, cause) ==
  [w EXCEPT !.emitted = Append(@, Event(name, originator, cause)),
            !.lateEvent = @ \/ (name \in SessionEvents /\ w.terminalCount > 0),
            !.terminalCount = IF name \in TerminalEvents THEN Inc(@) ELSE @,
            !.startedCount = IF name = "started" THEN Inc(@) ELSE @]

(***************************************************************************)
(* Timers: window.setTimeout / window.clearTimeout on a handle of          *)
(* RTCSession.timers.                                                      *)
(***************************************************************************)
setTimer(w, n) ==
  [w EXCEPT !.orphans[n] = IF w.timers[n] THEN @ + 1 ELSE @,
            !.timers[n] = TRUE]

clearTimer(w, n) == [w EXCEPT !.timers[n] = FALSE]

(***************************************************************************)
(* The INVITE server transaction behind request.reply (RFC 3261 17.2.1):   *)
(* a provisional response is sent while Proceeding; a 2xx is sent while    *)
(* Proceeding or Accepted; a final response of 300 or above is sent while  *)
(* Proceeding and completes the transaction; anything else is dropped.     *)
(***************************************************************************)
reply(w, code) ==
  IF code < 200
  THEN IF w.tx = "Proceeding" THEN Send(w, Reply("INVITE", code)) ELSE w
  ELSE IF code < 300
  THEN IF w.tx \in {"Proceeding", "Accepted"}
       THEN [Send(w, Reply("INVITE", code)) EXCEPT !.tx = "Accepted"]
       ELSE w
  ELSE IF w.tx = "Proceeding"
       THEN [Send(w, Reply("INVITE", code)) EXCEPT !.tx = "Completed"]
       ELSE w

\* a reply to another request than the INVITE (CANCEL, BYE): its own transaction
replyTo(w, method, code) == Send(w, Reply(method, code))

(***************************************************************************)
(* Dialog                                                                  *)
(***************************************************************************)
\* Dialog.prototype.processSessionTimerHeaders on session.dialog
processSessionTimerHeaders(w, se, fromRequest) ==
  IF se = "none"
  THEN [w EXCEPT !.refresh = "none"]
  ELSE LET localRefresher == IF fromRequest THEN se = "uas" ELSE se = "uac"
       IN [w EXCEPT !.refresh = IF localRefresher THEN "local" ELSE "remote"]

\* the Dialog object session.dialog refers to is dropped without terminate():
\* its session-refresh timer, if armed, stays armed
dropDialogObject(w) ==
  IF w.dialog # NoDialog /\ w.refresh # "none"
  THEN [w EXCEPT !.orphans[IF w.refresh = "local" THEN "refreshLocal"
                           ELSE "refreshRemote"] = @ + 1,
                 !.refresh = "none"]
  ELSE [w EXCEPT !.refresh = "none"]

(***************************************************************************)
(* RTCSession: close, the session events, the in-dialog requests it sends  *)
(***************************************************************************)
\* a close() that clears the timers but keeps the dialog and the status
close_KeepsDialog(w) ==
  IF w.status = STATUS_TERMINATED THEN w
  ELSE [w EXCEPT !.timers = [n \in TimerNames |-> FALSE],
                 !.refresh = "none",
                 !.uaSessions = FALSE]

\* RTCSession.prototype.close

close(w) ==
  IF w.status = STATUS_TERMINATED THEN w
  ELSE [w EXCEPT !.timers = [n \in TimerNames |-> FALSE],
                 !.refresh = "none",
                 !.uaDialogs = (@ \ {w.dialog}) \ w.earlyDialogs,
                 !.dialog = NoDialog,
                 !.earlyDialogs = {},
                 !.remote_seqnum = 0,
                 !.remote_target = "none",
                 !.last_invite_tx = "none",
                 !.last_update_tx = NoUpdateTx,
                 !.status = STATUS_TERMINATED,
                 !.uaSessions = FALSE]

progress(w, originator) == emit(w, "progress", originator, "none")

started(w, originator) == emit(w, "started", originator, "none")

ended(w, originator, cause) == emit(close(w), "ended", originator, cause)

failed(w, originator, cause) == emit(close(w), "failed", originator, cause)

\* a sendACK that sends nothing
sendACK_Nothing(w, d) == w

\* RTCSession.prototype.sendACK: dialog.createRequest on an undefined dialog
\* is a TypeError
sendACK(w, d) ==
  IF d = NoDialog THEN Throw(w, "TypeError") ELSE Send(w, Request("ACK", d))

\* sendBye validates options.status_code (0: not given) before it builds the BYE
sendBye(w, d, status_code) ==
  IF status_code # 0 /\ (status_code < 200 \/ status_code >= 700)
  THEN Throw(w, "TypeError")
  ELSE IF d = NoDialog THEN Throw(w, "TypeError")
  ELSE Send(w, Request("BYE", d))

\* the Dialog constructor: a UAS dialog takes remote_seqnum from the INVITE
\* and caches its server transaction, a UAC dialog leaves both unset
DialogSeqnum(id) == IF id = UasDialog THEN InitialCSeq ELSE 0
DialogInviteTx(id) == IF id = UasDialog THEN "initial" ELSE "none"

\* RTCSession.prototype.createDialog; the result is in w.ret
createDialog(w, id, hasContact, early) ==
  IF early
  THEN IF id \in w.earlyDialogs
       THEN [w EXCEPT !.ret = TRUE]
       ELSE IF hasContact
            THEN [w EXCEPT !.earlyDialogs = @ \cup {id},
                           !.uaDialogs = @ \cup {id},
                           !.replaced = @ \/ id \in w.uaDialogs,
                           !.remote_seqnum = IF id = UasDialog
                                             THEN DialogSeqnum(id) ELSE @,
                           !.remote_target = IF id = UasDialog THEN "c0" ELSE @,
                           !.last_invite_tx = IF id = UasDialog
                                              THEN DialogInviteTx(id) ELSE @,
                           !.ret = TRUE]
            ELSE [failed(w, "remote", "INTERNAL_ERROR") EXCEPT !.ret = FALSE]
  ELSE IF id \in w.earlyDialogs
       \* the early Dialog object becomes session.dialog: that of an incoming
       \* session keeps what its in-dialog requests have made of its fields
       THEN [dropDialogObject(w) EXCEPT !.dialog = id,
                                        !.earlyDialogs = @ \ {id},
                                        !.remote_seqnum = IF id = UasDialog THEN @
                                                          ELSE DialogSeqnum(id),
                                        !.remote_target = IF id = UasDialog THEN @
                                                          ELSE "c0",
                                        !.last_invite_tx = IF id = UasDialog THEN @
                                                           ELSE DialogInviteTx(id),
                                        !.ret = TRUE]
       ELSE IF hasContact
            THEN [dropDialogObject(w) EXCEPT !.dialog = id,
                                             !.uaDialogs = @ \cup {id},
                                             !.replaced = @ \/ id \in w.uaDialogs,
                                             !.remote_seqnum = DialogSeqnum(id),
                                             !.remote_target = "c0",
                                             !.last_invite_tx = DialogInviteTx(id),
                                             !.ret = TRUE]
            ELSE [failed(w, "remote", "INTERNAL_ERROR") EXCEPT !.ret = FALSE]

\* RTCSession.prototype.acceptAndTerminate(response, status_code)
acceptAndTerminate(w, did, hasContact, status_code) ==
  LET w1 == IF w.dialog = NoDialog
            THEN createDialog(w, did, hasContact, FALSE)
            ELSE IF did = w.dialog THEN [w EXCEPT !.ret = TRUE]
            ELSE IF did \in w.earlyDialogs THEN [w EXCEPT !.ret = TRUE]
            ELSE createDialog(w, did, hasContact, TRUE)
      d == IF ~w1.ret THEN NoDialog
           ELSE IF w.dialog = NoDialog THEN w1.dialog
           ELSE did
  IN IF d = NoDialog THEN w1
     ELSE Then(sendACK(w1, d), LAMBDA x : sendBye(x, d, status_code))

(***************************************************************************)
(* RTCSession: the user API                                                *)
(***************************************************************************)
\* a terminate() that returns quietly on a Terminated session
terminate_Silent(w, status_code) ==
  IF w.status = STATUS_TERMINATED THEN w
  ELSE close(failed(w, "local", "CANCELED"))

\* RTCSession.prototype.terminate(options); status_code 0: not given
terminate(w, status_code) ==
  IF w.status = STATUS_TERMINATED THEN Throw(w, "InvalidStateError")
  ELSE IF w.status \in {STATUS_NULL, STATUS_INVITE_SENT, STATUS_1XX_RECEIVED}
  THEN IF status_code # 0 /\ (status_code < 200 \/ status_code >= 700)
       THEN Throw(w, "TypeError")
       ELSE LET w1 ==
                  IF w.status = STATUS_NULL
                  THEN [w EXCEPT !.isCanceled = TRUE]
                  ELSE IF w.status = STATUS_INVITE_SENT
                  THEN IF w.received_100
                       THEN Send(w, Request("CANCEL", NoDialog))
                       ELSE [w EXCEPT !.isCanceled = TRUE]
                  ELSE Send(w, Request("CANCEL", NoDialog))
            IN close(failed(w1, "local", "CANCELED"))
  ELSE IF w.status = STATUS_WAITING_FOR_ANSWER
  THEN LET code == IF status_code = 0 THEN 480 ELSE status_code
       IN IF code < 300 \/ code >= 700
          THEN Throw(w, "TypeError")
          ELSE close(failed(reply(w, code), "local", "REJECTED"))
  ELSE IF w.status \in {STATUS_WAITING_FOR_ACK, STATUS_CONFIRMED}
  THEN Then(sendBye(w, w.dialog, status_code),
            LAMBDA x : close(ended(x, "local", "BYE")))
  ELSE close(w)

\* replySucceeded: the callback of the 200 reply of answer()
replySucceeded(w) ==
  started(setTimer(setTimer([w EXCEPT !.status = STATUS_WAITING_FOR_ACK],
                            "invite2xxTimer"), "ackTimer"), "local")

replyFailed(w) == failed(w, "system", "CONNECTION_ERROR")

\* answerCreationSucceeded: request.reply(200, ..., replySucceeded, replyFailed).
\* The transaction hands the 200 to the transport while Proceeding or Accepted
\* and then calls one of the two callbacks; otherwise it drops the reply.
answerCreationSucceeded(w, transportOk) ==
  IF w.tx \in {"Proceeding", "Accepted"}
  THEN IF transportOk
       THEN replySucceeded(reply(w, 200))
       ELSE replyFailed([w EXCEPT !.tx = "Terminated"])
  ELSE w

\* RTCSession.prototype.answer(options); withSdp: options.sdp is given
answer(w, withSdp, transportOk) ==
  IF w.direction # "incoming" THEN Throw(w, "TypeError")
  ELSE IF w.status # STATUS_WAITING_FOR_ANSWER THEN Throw(w, "InvalidStateError")
  ELSE LET w1 == createDialog(w, UasDialog, TRUE, FALSE)
       IN IF ~w1.ret THEN reply(w1, 500)
          ELSE LET w2 == processSessionTimerHeaders(
                           clearTimer(w1, "userNoAnswerTimer"), w.reqSE, TRUE)
               IN IF withSdp
                  THEN answerCreationSucceeded(w2, transportOk)
                  ELSE IF ~w.rtcMediaHandler THEN Throw(w2, "TypeError")
                  ELSE [w2 EXCEPT !.answerChains["getUserMedia"] = @ + 1]

(***************************************************************************)
(* RTCSession: an incoming INVITE                                          *)
(***************************************************************************)
\* RTCSession.prototype.newRTCSession: the UA event, and the session's direction
newRTCSession(w, originator, withCallbacks) ==
  [w EXCEPT !.direction = IF originator = "remote" THEN "incoming" ELSE "outgoing",
            !.emitted = Append(@, Event("newRTCSession", originator, "none")),
            !.newRTCSessionCount = Inc(@),
            !.appCallbacks = IF withCallbacks THEN "offered" ELSE @]

sdpValid(w) ==
  LET w1 == setTimer([reply(w, 180) EXCEPT !.status = STATUS_WAITING_FOR_ANSWER],
                     "userNoAnswerTimer")
  IN IF w.reqExpires THEN setTimer(w1, "expiresTimer") ELSE w1

sdpInvalid(w) == failed(reply(w, 488), "remote", "BAD_MEDIA_DESCRIPTION")

handleMedia(w) == [w EXCEPT !.rtcMediaHandler = TRUE, !.offerPending = TRUE]

\* RTCSession.prototype.init_incoming(request)
init_incoming(w, hasSdp, hasContact, expires, se, handle_media) ==
  LET w0 == [w EXCEPT !.tx = "Proceeding"]
  IN IF ~hasSdp THEN reply(w0, 415)
     ELSE LET w1 == [w0 EXCEPT !.status = STATUS_INVITE_RECEIVED,
                               !.request = "incoming",
                               !.reqExpires = expires,
                               !.reqSE = se,
                               !.uaSessions = TRUE]
              w2 == createDialog(w1, UasDialog, hasContact, TRUE)
          IN IF ~w2.ret THEN reply(w2, 500)
             ELSE IF handle_media THEN handleMedia(w2)
             ELSE newRTCSession(w2, "remote", TRUE)

\* the callbacks of the timers armed by sdpValid and replySucceeded
userNoAnswerTimeout(w) == failed(reply(w, 480), "local", "NO_ANSWER")

expiresTimeout(w) ==
  IF w.status = STATUS_WAITING_FOR_ANSWER
  THEN failed(reply(w, 487), "system", "EXPIRES")
  ELSE w

invite2xxRetransmission(w) ==
  IF w.status # STATUS_WAITING_FOR_ACK THEN w
  ELSE setTimer(reply(w, 200), "invite2xxTimer")

ackTimeout(w) ==
  IF w.status = STATUS_WAITING_FOR_ACK
  THEN Then(sendBye(clearTimer(w, "invite2xxTimer"), w.dialog, 0),
            LAMBDA x : ended(x, "remote", "NO_ACK"))
  ELSE w

\* Dialog.prototype.setSessionRefreshTimer: the two timer actions
refreshAction(w, kind) ==
  IF kind = "local"
  THEN emit(w, "refresh", "undefined", "none")
  ELSE Then(sendBye(w, w.dialog, 408),
            LAMBDA x : ended(x, "system", "SESSION_TIMER"))

(***************************************************************************)
(* Reinvite (RTCSession/Reinvite.js): the part receiveRequest calls        *)
(***************************************************************************)
\* EventEmitter.emit on a Reinvite
reinviteEmit(w, name, originator, cause) ==
  [w EXCEPT !.reinviteEmitted = Append(@, Event(name, originator, cause))]

\* session.emit('reinvite', ...) for the Reinvite that becomes lastReinvite
emitReinvite(w, originator) ==
  emit([w EXCEPT !.lastReinvite.reinviteEvents = @ + 1],
       "reinvite", originator, "none")

\* the previous re-INVITE has completed, or there was none
reinviteDone(w) ==
  w.lastReinvite.status \in {"none", STATUS_CONFIRMED, STATUS_CANCELED,
                             STATUS_TERMINATED}

\* Reinvite.prototype.init_incoming, on the new Reinvite that becomes
\* session.lastReinvite
Reinvite_init_incoming(w) ==
  emitReinvite([w EXCEPT !.lastReinvite =
                   Reinvite(STATUS_INVITE_RECEIVED, "incoming", "Proceeding")],
               "remote")

\* Reinvite.prototype.receiveAck
Reinvite_receiveAck(w) ==
  reinviteEmit([w EXCEPT !.lastReinvite.status = STATUS_CONFIRMED,
                         !.lastReinvite.timers = @ \ {"invite2xxTimer", "ackTimer"}],
               "completed", "remote", "none")

\* request.reply on the UPDATE the dialog has cached, through its non-INVITE
\* server transaction (RFC 3261 17.2.2): a provisional response is sent while
\* Trying or Proceeding, a final one completes the transaction
updateReply(w, code) ==
  IF w.last_update_tx.state \in {"Trying", "Proceeding"}
  THEN [replyTo(w, "UPDATE", code)
          EXCEPT !.last_update_tx.state =
                   IF code < 200 THEN "Proceeding" ELSE "Completed"]
  ELSE w

\* Update.prototype.accept: this.session.dialog.processSessionTimerHeaders is
\* a TypeError while the session has no confirmed dialog; the UPDATE of the
\* model has no Session-Expires header.  this.accepted is in w.ret.
Update_accept(w) ==
  IF w.dialog = NoDialog THEN Throw(w, "TypeError")
  ELSE [updateReply(processSessionTimerHeaders(w, "none", TRUE), 200)
          EXCEPT !.ret = TRUE]

\* Update.prototype.reject (status_code 0: not given)
Update_reject(w, status_code) ==
  LET code == IF status_code = 0 THEN 480 ELSE status_code
  IN IF code < 300 \/ code >= 700 THEN Throw(w, "TypeError")
     ELSE [updateReply(w, code) EXCEPT !.ret = FALSE]

\* Update.prototype.init_incoming; hasBody: the UPDATE has a Content-Type or a
\* body; appCall is what the listener of `update` does: nothing, accept(),
\* reject(), or request.reply(100) on the request it is given
Update_init_incoming(w, hasBody, appCall) ==
  LET w1 == emit(w, "update", "remote", "none")
      w2 == IF appCall = "accept" THEN Update_accept(w1)
            ELSE IF appCall = "reject" THEN Update_reject(w1, 0)
            ELSE IF appCall = "provisional" THEN updateReply(w1, 100)
            ELSE w1
  IN Then(w2, LAMBDA x :
       IF appCall \in {"accept", "reject"} THEN x
       ELSE IF hasBody THEN Update_reject(x, 488)
       ELSE Update_accept(x))

\* EventEmitter.emit on an Update
updateEmit(w, name, originator, cause) ==
  [w EXCEPT !.outUpdates.emitted = Append(@, Event(name, originator, cause))]

\* RTCSession.prototype.sendUpdate with Update.prototype.send on the new Update
sendUpdate(w) ==
  IF w.status \notin {STATUS_CONFIRMED, STATUS_WAITING_FOR_ACK}
  THEN Throw(w, "InvalidStateError")
  ELSE IF w.dialog = NoDialog THEN Throw(w, "TypeError")
  ELSE Send(emit([w EXCEPT !.outUpdates.pending = @ + 1],
                 "update", "local", "none"),
            Request("UPDATE", w.dialog))

\* Update.prototype.receiveResponse; se: the refresher of the Session-Expires
\* header of the response ("none": no such header)
Update_receiveResponse(w, code, se) ==
  IF w.status # STATUS_CONFIRMED THEN w
  ELSE IF code < 200 THEN w
  ELSE IF code < 300
  THEN updateEmit(processSessionTimerHeaders(w, se, FALSE),
                  "succeeded", "remote", "none")
  ELSE updateEmit(w, "failed", "remote", "sipErrorCause")

\* Update.prototype.onRequestTimeout, Update.prototype.onTransportError
Update_onRequestTimeout(w) == updateEmit(w, "failed", "system", "REQUEST_TIMEOUT")
Update_onTransportError(w) == updateEmit(w, "failed", "system", "CONNECTION_ERROR")

\* RTCSession.prototype.receiveRequest(request)
receiveRequest(w, method) ==
  IF method = "CANCEL"
  THEN IF w.status = STATUS_WAITING_FOR_ANSWER
       THEN failed(replyTo(reply([w EXCEPT !.status = STATUS_CANCELED], 487),
                           "CANCEL", 200),
                   "remote", "CANCELED")
       ELSE replyTo(w, "CANCEL", 481)
  ELSE IF method = "ACK"
  THEN IF w.status = STATUS_WAITING_FOR_ACK
       THEN [clearTimer(clearTimer(w, "ackTimer"), "invite2xxTimer")
               EXCEPT !.status = STATUS_CONFIRMED, !.ackReceived = TRUE]
       ELSE IF w.lastReinvite.status = STATUS_WAITING_FOR_ACK
       THEN Reinvite_receiveAck(w)
       ELSE w
  ELSE IF method = "BYE"
  THEN IF w.status = STATUS_CONFIRMED
       THEN ended(replyTo(w, "BYE", 200), "remote", "BYE")
       ELSE w
  ELSE IF method = "INVITE"
  THEN IF w.status # STATUS_CONFIRMED
       THEN [replyTo(w, "INVITE", 491) EXCEPT !.ret = FALSE]
       ELSE IF ~reinviteDone(w)
       THEN [replyTo(w, "INVITE", 491) EXCEPT !.ret = FALSE]
       ELSE Reinvite_init_incoming(w)
  ELSE IF method = "UPDATE"
  THEN Update_init_incoming(w, w.hasBody, w.appCall)
  ELSE w

(***************************************************************************)
(* RTCSession: an outgoing INVITE                                          *)
(***************************************************************************)
sendInvite(w) ==
  [Send(w, Request("INVITE", NoDialog)) EXCEPT !.status = STATUS_INVITE_SENT,
                                               !.inviteOnWire = TRUE]

\* RTCSession.prototype.connect(target, options)
connect(w, withSdp, invalidTarget) ==
  IF w.status # STATUS_NULL THEN Throw(w, "InvalidStateError")
  ELSE LET w1 == newRTCSession([w EXCEPT !.rtcMediaHandler = ~withSdp,
                                         !.isCanceled = FALSE,
                                         !.received_100 = FALSE,
                                         !.request = "outgoing",
                                         !.uaSessions = TRUE],
                               "local", FALSE)
       IN IF invalidTarget THEN failed(w1, "local", "INVALID_TARGET")
          ELSE IF withSdp THEN sendInvite(w1)
          ELSE [w1 EXCEPT !.offerChain = "getUserMedia"]

\* the callbacks of sendInitialRequest
mediaFailed(w, cause) ==
  IF w.status = STATUS_TERMINATED THEN w ELSE failed(w, "local", cause)

offerCreationSucceeded(w) ==
  IF w.isCanceled \/ w.status = STATUS_TERMINATED THEN w ELSE sendInvite(w)

\* RTCSession.prototype.receiveInviteResponse(response)
receiveInviteResponse(w, code, to_tag, hasContact, hasBody, se) ==
  IF w.status \notin {STATUS_INVITE_SENT, STATUS_1XX_RECEIVED, STATUS_CONFIRMED}
  THEN w
  ELSE IF w.isCanceled
  THEN IF code >= 100 /\ code < 200
       THEN Send(w, Request("CANCEL", NoDialog))
       ELSE IF code >= 200 /\ code < 299
       THEN acceptAndTerminate(w, to_tag, hasContact, 0)
       ELSE w
  ELSE IF code = 100
  THEN [w EXCEPT !.received_100 = TRUE]
  ELSE IF code < 200
  THEN IF to_tag = NoTag THEN w
       ELSE LET w1 == IF hasContact THEN createDialog(w, to_tag, TRUE, TRUE)
                      ELSE w
            IN progress([w1 EXCEPT !.status = STATUS_1XX_RECEIVED], "remote")
  ELSE IF code < 300
  THEN IF w.status = STATUS_CONFIRMED
       THEN IF w.dialog = NoDialog THEN Throw(w, "TypeError")
            ELSE IF to_tag = w.dialog THEN sendACK(w, w.dialog)
            ELSE acceptAndTerminate(w, to_tag, hasContact, 0)
       ELSE LET w1 == [w EXCEPT !.status = STATUS_CONFIRMED]
            IN IF ~hasBody
               THEN Then(acceptAndTerminate(w1, to_tag, hasContact, 400),
                         LAMBDA x : failed(x, "remote", "BAD_MEDIA_DESCRIPTION"))
               ELSE LET w2 == createDialog(w1, to_tag, hasContact, FALSE)
                    IN IF ~w2.ret THEN w2
                       ELSE LET w3 == processSessionTimerHeaders(
                                        sendACK(w2, w2.dialog), se, FALSE)
                            IN IF w.rtcMediaHandler
                               THEN [w3 EXCEPT !.answerSdpPending = @ + 1]
                               ELSE started(w3, "remote")
  ELSE failed(w, "remote", "REJECTED")

\* the callbacks of rtcMediaHandler.onMessage('answer', ...) of a 2xx
answerSdpSucceeded(w) == started(w, "remote")

answerSdpFailed(w) ==
  Then(sendBye(w, w.dialog, 488),
       LAMBDA x : failed(x, "remote", "BAD_MEDIA_DESCRIPTION"))

\* an onTransportError that fails the session whatever its status
onTransportError_AlwaysFailed(w) ==
  IF w.status = STATUS_TERMINATED THEN w
  ELSE failed(w, "system", "CONNECTION_ERROR")

\* RTCSession.prototype.onTransportError / onRequestTimeout
onTransportError(w) ==
  IF w.status = STATUS_TERMINATED THEN w
  ELSE IF w.status = STATUS_CONFIRMED
  THEN ended(w, "system", "CONNECTION_ERROR")
  ELSE failed(w, "system", "CONNECTION_ERROR")

onRequestTimeout(w) ==
  IF w.status = STATUS_TERMINATED THEN w
  ELSE IF w.status = STATUS_CONFIRMED
  THEN ended(w, "system", "REQUEST_TIMEOUT")
  ELSE failed(w, "system", "CONNECTION_ERROR")

(***************************************************************************)
(* Dialog: in-dialog requests (Dialogs.js)                                 *)
(***************************************************************************)
\* the state of the transaction the dialog has cached as last_invite_tx: the
\* initial INVITE's, the one of lastReinvite's request, or the one of an
\* INVITE that was answered at once (491), which is Completed
lastInviteTxState(w) ==
  IF w.last_invite_tx = "initial" THEN w.tx
  ELSE IF w.last_invite_tx = "reinvite" THEN w.lastReinvite.tx
  ELSE IF w.last_invite_tx = "other" THEN "Completed"
  ELSE "none"

\* a checkInDialogRequest that takes every CSeq number as the new remote_seqnum
checkInDialogRequest_AnyCSeq(w, req) ==
  [w EXCEPT !.remote_seqnum = req.cseq, !.ret = TRUE]

\* a checkInDialogRequest that does not look at the cached INVITE transaction
checkInDialogRequest_NoTxCheck(w, req) ==
  IF w.remote_seqnum # 0 /\ req.cseq < w.remote_seqnum
  THEN IF req.method # "ACK"
       THEN [replyTo(w, req.method, 500) EXCEPT !.ret = FALSE]
       ELSE [w EXCEPT !.ret = FALSE]
  ELSE [w EXCEPT !.remote_seqnum = req.cseq,
                 !.last_invite_tx = IF req.method = "INVITE" THEN "other" ELSE @,
                 !.last_update_tx = IF req.method = "UPDATE"
                                    THEN UpdateTx(w.requests, "Trying") ELSE @,
                 !.ret = TRUE]

\* a checkInDialogRequest that caches the transaction of every UPDATE
checkInDialogRequest_NoUpdateCheck(w, req) ==
  LET low == w.remote_seqnum # 0 /\ req.cseq < w.remote_seqnum
      w1 == IF w.remote_seqnum = 0 \/ req.cseq > w.remote_seqnum
            THEN [w EXCEPT !.remote_seqnum = req.cseq]
            ELSE w
  IN IF low
     THEN IF req.method # "ACK"
          THEN [replyTo(w, req.method, 500) EXCEPT !.ret = FALSE]
          ELSE [w EXCEPT !.ret = FALSE]
     ELSE IF req.method = "INVITE"
     THEN IF lastInviteTxState(w1) = "Proceeding"
          THEN [replyTo(w1, "INVITE", 500) EXCEPT !.retryAfter = w.random + 1,
                                                  !.ret = FALSE]
          ELSE [w1 EXCEPT !.last_invite_tx = "other", !.ret = TRUE]
     ELSE IF req.method = "UPDATE"
     THEN [w1 EXCEPT !.last_update_tx = UpdateTx(w.requests, "Trying"),
                     !.ret = TRUE]
     ELSE [w1 EXCEPT !.ret = TRUE]

\* Dialog.prototype.checkInDialogRequest; the result is in w.ret
checkInDialogRequest(w, req) ==
  LET low == w.remote_seqnum # 0 /\ req.cseq < w.remote_seqnum
      w1 == IF w.remote_seqnum = 0 \/ req.cseq > w.remote_seqnum
            THEN [w EXCEPT !.remote_seqnum = req.cseq]
            ELSE w
  IN IF low
     THEN IF req.method # "ACK"
          THEN [replyTo(w, req.method, 500) EXCEPT !.ret = FALSE]
          ELSE [w EXCEPT !.ret = FALSE]
     ELSE IF req.method = "INVITE"
     THEN IF lastInviteTxState(w1) = "Proceeding"
          THEN [replyTo(w1, "INVITE", 500) EXCEPT !.retryAfter = w.random + 1,
                                                  !.ret = FALSE]
          ELSE [w1 EXCEPT !.last_invite_tx = "other", !.ret = TRUE]
     ELSE IF req.method = "UPDATE"
     THEN IF w1.last_update_tx.state \in {"Trying", "Proceeding"}
          THEN [replyTo(w1, "UPDATE", 500) EXCEPT !.retryAfter = w.random + 1,
                                                  !.ret = FALSE]
          ELSE [w1 EXCEPT !.last_update_tx = UpdateTx(w.requests, "Trying"),
                          !.ret = TRUE]
     ELSE [w1 EXCEPT !.ret = TRUE]

\* the methods whose requests refresh the target of the dialog
TargetRefreshMethods == {"INVITE", "UPDATE", "NOTIFY"}

\* a receiveRequest that hands every request to the owner
Dialog_receiveRequest_NoCheck(w, req) ==
  LET w2 == receiveRequest([w EXCEPT !.inRequest = req, !.handed = TRUE],
                           req.method)
  IN IF w2.thrown = "none" /\ w2.ret /\ req.method \in TargetRefreshMethods
          /\ req.hasContact
     THEN [w2 EXCEPT !.remote_target = "c1"]
     ELSE w2

\* Dialog.prototype.receiveRequest: the check, the owner, the target refresh
Dialog_receiveRequest(w, req) ==
  LET w0 == [w EXCEPT !.inRequest = req]
      w1 == checkInDialogRequest(w0, req)
  IN IF ~w1.ret THEN w1
     ELSE LET w2 == receiveRequest([w1 EXCEPT !.handed = TRUE], req.method)
              \* the new Reinvite's request is the one the dialog has cached
              w3 == IF req.method = "INVITE" /\ w2.ret /\ w2.thrown = "none"
                    THEN [w2 EXCEPT !.last_invite_tx = "reinvite"]
                    ELSE w2
          IN IF w3.thrown # "none" \/ ~w3.ret THEN w3
             ELSE IF req.method \in TargetRefreshMethods /\ req.hasContact
             THEN [w3 EXCEPT !.remote_target = "c1"]
             ELSE w3

(***************************************************************************)
(* Reinvite (RTCSession/Reinvite.js)                                       *)
(***************************************************************************)
\* request.reply on the request of lastReinvite, through its server
\* transaction (as reply does for the initial INVITE)
reinviteReply(w, code) ==
  LET t == w.lastReinvite.tx
  IN IF code < 200
     THEN IF t = "Proceeding" THEN Send(w, Reply("INVITE", code)) ELSE w
     ELSE IF code < 300
     THEN IF t \in {"Proceeding", "Accepted"}
          THEN [Send(w, Reply("INVITE", code)) EXCEPT !.lastReinvite.tx = "Accepted"]
          ELSE w
     ELSE IF t = "Proceeding"
          THEN [Send(w, Reply("INVITE", code)) EXCEPT !.lastReinvite.tx = "Completed"]
          ELSE w

\* Reinvite.prototype.onTransportError
Reinvite_onTransportError(w) ==
  IF w.lastReinvite.status \in {STATUS_CONFIRMED, STATUS_CANCELED, STATUS_TERMINATED}
  THEN w
  ELSE reinviteEmit([w EXCEPT !.lastReinvite.status = STATUS_TERMINATED],
                    "failed", "system", "CONNECTION_ERROR")

\* Reinvite.prototype.onRequestTimeout
Reinvite_onRequestTimeout(w) ==
  reinviteEmit([w EXCEPT !.lastReinvite.status = STATUS_TERMINATED],
               "failed", "system", "REQUEST_TIMEOUT")

\* a sendReinvite that does not look at lastReinvite
sendReinvite_NoCheck(w, sdpGiven) ==
  IF ~sdpGiven THEN Throw(w, "TypeError")
  ELSE IF w.status # STATUS_CONFIRMED THEN Throw(w, "InvalidStateError")
  ELSE IF w.dialog = NoDialog THEN Throw(w, "TypeError")
  ELSE Send(emitReinvite([w EXCEPT !.lastReinvite =
                              Reinvite(STATUS_INVITE_SENT, "outgoing", "none")],
                         "local"),
            Request("INVITE", w.dialog))

\* Reinvite.prototype.send, called by RTCSession.prototype.sendReinvite on a
\* new Reinvite; sdpGiven: options.sdp is not undefined
sendReinvite(w, sdpGiven) ==
  IF ~reinviteDone(w) THEN Throw(w, "InvalidStateError")
  ELSE IF ~sdpGiven THEN Throw(w, "TypeError")
  ELSE IF w.status # STATUS_CONFIRMED THEN Throw(w, "InvalidStateError")
  ELSE IF w.dialog = NoDialog THEN Throw(w, "TypeError")
  ELSE Send(emitReinvite([w EXCEPT !.lastReinvite =
                              Reinvite(STATUS_INVITE_SENT, "outgoing", "none")],
                         "local"),
            Request("INVITE", w.dialog))

\* Reinvite.prototype.receiveResponse
Reinvite_receiveResponse(w, code) ==
  IF w.lastReinvite.status \in {STATUS_CONFIRMED, STATUS_CANCELED}
  THEN IF w.status = STATUS_CONFIRMED THEN sendACK(w, w.dialog) ELSE w
  ELSE IF code < 200
  THEN [w EXCEPT !.lastReinvite.status = STATUS_1XX_RECEIVED]
  ELSE LET w1 ==
             IF code < 300
             THEN LET x == [w EXCEPT !.lastReinvite.status = STATUS_CONFIRMED]
                  IN IF x.status = STATUS_CONFIRMED
                     THEN Then(sendACK(x, x.dialog),
                               LAMBDA y : reinviteEmit(y, "succeeded", "remote", "none"))
                     ELSE x
             ELSE reinviteEmit([w EXCEPT !.lastReinvite.status = STATUS_CANCELED],
                               "failed", "remote", "REJECTED")
       IN Then(w1, LAMBDA y : reinviteEmit(y, "completed", "local", "none"))

\* Reinvite.prototype.successResponseSent: both timers go to this.timers
successResponseSent(w) ==
  [w EXCEPT !.lastReinvite.timers = @ \cup {"invite2xxTimer", "ackTimer"}]

\* the invite2xxRetransmission callback of successResponseSent: `self` is
\* the session, so it looks at the session's status and re-arms in the
\* session's timers
Reinvite_invite2xxRetransmission(w) ==
  IF w.status # STATUS_WAITING_FOR_ACK THEN w
  ELSE setTimer(reinviteReply(w, 200), "invite2xxTimer")

\* the ackTimer callback of successResponseSent: `self` is the session, and
\* self.session is undefined
Reinvite_ackTimeout(w) ==
  IF w.status = STATUS_WAITING_FOR_ACK
  THEN Throw(clearTimer(w, "invite2xxTimer"), "TypeError")
  ELSE w

\* Reinvite.prototype.sdpValid; expires: the request has an Expires header
\* below no_answer_timeout
Reinvite_sdpValid(w, expires) ==
  IF w.lastReinvite.direction # "incoming" THEN Throw(w, "TypeError")
  ELSE [w EXCEPT !.lastReinvite.status = STATUS_WAITING_FOR_ANSWER,
                 !.lastReinvite.timers =
                    @ \cup {"provisionalResponse",
                            IF expires THEN "answer487" ELSE "answer480"}]

\* the callbacks of the timers sdpValid arms
Reinvite_provisionalResponse(w) == reinviteReply(w, 180)

Reinvite_answerTimeout(w, code) ==
  IF code = 487
  THEN reinviteEmit(reinviteReply(w, 487), "failed", "system", "EXPIRES")
  ELSE reinviteEmit(reinviteReply(w, 480), "failed", "local", "NO_ANSWER")

\* Reinvite.prototype.sdpInvalid
Reinvite_sdpInvalid(w) ==
  IF w.lastReinvite.direction # "incoming" THEN Throw(w, "TypeError")
  ELSE reinviteEmit([reinviteReply(w, 488)
                       EXCEPT !.lastReinvite.status = STATUS_WAITING_FOR_ACK],
                    "failed", "remote", "BAD_MEDIA_DESCRIPTION")

\* clearTimeout of provisionalResponse and answer in accept() and reject()
clearAnswerTimers(w) ==
  [w EXCEPT !.lastReinvite.timers =
              @ \ {"provisionalResponse", "answer487", "answer480"}]

\* Reinvite.prototype.accept: the 200 goes out through the transaction, which
\* calls successResponseSent or replyFailed before reply returns
Reinvite_accept(w, transportOk) ==
  IF w.lastReinvite.direction # "incoming" THEN Throw(w, "TypeError")
  ELSE LET w1 == clearAnswerTimers(w)
           w2 == IF w1.lastReinvite.tx \in {"Proceeding", "Accepted"}
                 THEN IF transportOk
                      THEN successResponseSent(reinviteReply(w1, 200))
                      ELSE Reinvite_onTransportError(
                             onTransportError(
                               [w1 EXCEPT !.lastReinvite.tx = "Terminated"]))
                 ELSE w1
       IN [w2 EXCEPT !.lastReinvite.status = STATUS_WAITING_FOR_ACK]

\* a reject that also fails the session
Reinvite_reject_FailsSession(w, status_code) ==
  failed([reinviteReply(clearAnswerTimers(w), status_code)
            EXCEPT !.lastReinvite.status = STATUS_WAITING_FOR_ACK],
         "local", "REJECTED")

\* Reinvite.prototype.reject; status_code 0: not given
Reinvite_reject(w, status_code) ==
  LET code == IF status_code = 0 THEN 480 ELSE status_code
  IN IF w.lastReinvite.direction # "incoming" THEN Throw(w, "TypeError")
     ELSE IF code < 300 \/ code >= 700 THEN Throw(w, "TypeError")
     ELSE [reinviteReply(clearAnswerTimers(w), code)
             EXCEPT !.lastReinvite.status = STATUS_WAITING_FOR_ACK]

(***************************************************************************)
(* The initial state: a session object right after `new RTCSession(ua)`.   *)
(***************************************************************************)
SessionInit ==
  /\ status = STATUS_NULL
  /\ replaced = FALSE
  /\ remote_seqnum = 0
  /\ remote_target = "none"
  /\ last_invite_tx = "none"
  /\ last_update_tx = NoUpdateTx
  /\ retryAfter = 0
  /\ lastReinvite = NoReinvite
  /\ inRequest = NoRequest
  /\ handed = FALSE
  /\ reinviteEmitted = <<>>
  /\ requests = 0
  /\ outUpdates = [pending |-> 0, emitted |-> <<>>]
  /\ direction = "none"
  /\ request = "none"
  /\ rtcMediaHandler = FALSE
  /\ isCanceled = FALSE
  /\ received_100 = FALSE
  /\ dialog = NoDialog
  /\ earlyDialogs = {}
  /\ timers = [n \in TimerNames |-> FALSE]
  /\ refresh = "none"
  /\ orphans = [k \in TimerKinds |-> 0]
  /\ uaDialogs = {}
  /\ uaSessions = FALSE
  /\ tx = "none"
  /\ reqExpires = FALSE
  /\ reqSE = "none"
  /\ inviteOnWire = FALSE
  /\ appCallbacks = "none"
  /\ offerPending = FALSE
  /\ answerChains = [g \in AnswerStages |-> 0]
  /\ offerChain = "none"
  /\ answerSdpPending = 0
  /\ received = NoResponse
  /\ sent = <<>>
  /\ emitted = <<>>
  /\ thrown = "none"
  /\ startedCount = 0
  /\ terminalCount = 0
  /\ lateEvent = FALSE
  /\ everConfirmed = FALSE
  /\ ackReceived = FALSE
  /\ byeCount = 0
  /\ newRTCSessionCount = 0
  /\ tcCalls = 0
  /\ tcByes = 0
  /\ tcEnded = 0
  /\ tcArgsOk = TRUE
  /\ cancelSent = FALSE
  /\ responses = 0
  /\ answerCalls = 0

(***************************************************************************)
(* Refer: the REFER request and its implicit subscription.  The            *)
(* out-of-dialog Refer (referKind "out") owns its dialog; the in-dialog    *)
(* Refer (referKind "in") uses the dialog of its session and differs only  *)
(* where noted.                                                            *)
(***************************************************************************)
\* the payload of a `notify` event: the status code of its sipFrag (0: no
\* event), its sessionEvent and its finalNotify
NotifyPayload(sipFrag, sessionEvent, finalNotify) ==
  [sipFrag |-> sipFrag, sessionEvent |-> sessionEvent, finalNotify |-> finalNotify]
NoPayload == NotifyPayload(0, "none", FALSE)

ReferCur ==
  [kind |-> referKind, direction |-> referDirection, closed |-> closed,
   subscription_state |-> subscription_state, dialog |-> referDialog,
   accepted |-> accepted, rejected |-> rejected,
   expire_timer |-> expire_timer, notify_timer |-> notify_timer,
   notifiesInFlight |-> notifiesInFlight, orphans |-> referOrphans,
   sent |-> <<>>, emitted |-> <<>>, thrown |-> "none", calls |-> referCalls,
   onWire |-> referOnWire,
   remote_target |-> referTarget, inRequest |-> NoRequest, ret |-> FALSE,
   uaRefers |-> uaRefers, finalNotifies |-> finalNotifies,
   last_notify_body |-> last_notify_body, finalPayload |-> NoPayload,
   fragCode |-> 100]

\* the observed run: step -1 once the run has left the scenario
Scenario(step, events, payloads, replies) ==
  [step |-> step, events |-> events, payloads |-> payloads, replies |-> replies]
ScenarioOff == Scenario(-1, <<>>, <<>>, <<>>)

\* the payload of the `notify` event receiveNotify emits: sessionEvent from
\* the status code of the sipfrag, finalNotify from the subscription state
notifyPayload(r, fragCode) ==
  [sessionEvent |-> IF fragCode < 200 THEN "progress"
                    ELSE IF fragCode < 300 THEN "started" ELSE "failed",
   finalNotify |-> r.subscription_state = "terminated"]

\* the run goes one step on with what the handler did: r is its result
ScenarioStep(r, payloads) ==
  Scenario(scenario.step + 1,
           scenario.events \o r.emitted,
           scenario.payloads \o payloads,
           scenario.replies \o SelectSeq(r.sent, LAMBDA m : m # "REFER"))

ReferCommitAll(r, sc) ==
  /\ scenario' = sc
  /\ referKind' = r.kind
  /\ referDirection' = r.direction
  /\ closed' = r.closed
  /\ subscription_state' = r.subscription_state
  /\ referDialog' = r.dialog
  /\ accepted' = r.accepted
  /\ rejected' = r.rejected
  /\ expire_timer' = r.expire_timer
  /\ notify_timer' = r.notify_timer
  /\ notifiesInFlight' = r.notifiesInFlight
  /\ referOrphans' = r.orphans
  /\ referSent' = r.sent
  /\ referEmitted' = r.emitted
  /\ referThrown' = r.thrown
  /\ referCalls' = r.calls
  /\ referOnWire' = r.onWire
  /\ referTarget' = r.remote_target
  /\ referRequest' = r.inRequest
  /\ uaRefers' = r.uaRefers
  /\ finalNotifies' = r.finalNotifies
  /\ last_notify_body' = r.last_notify_body
  /\ finalPayload' = r.finalPayload
  /\ wasTerminated' = (wasTerminated \/ subscription_state = "terminated"
                         \/ r.subscription_state = "terminated")
  /\ UNCHANGED <<sessionVars, message, dtmf>>

\* the commit of a handler that is not a step of the observed run
ReferCommit(r) == ReferCommitAll(r, ScenarioOff)

ReferInit ==
  /\ scenario = Scenario(0, <<>>, <<>>, <<>>)
  /\ referKind = "out"
  /\ referDirection = "none"
  /\ closed = FALSE
  /\ subscription_state = "pending"
  /\ referDialog = FALSE
  /\ accepted = FALSE
  /\ rejected = FALSE
  /\ expire_timer = "none"
  /\ notify_timer = FALSE
  /\ notifiesInFlight = 0
  /\ referOrphans = 0
  /\ referSent = <<>>
  /\ referEmitted = <<>>
  /\ referThrown = "none"
  /\ referCalls = 0
  /\ referOnWire = FALSE
  /\ wasTerminated = FALSE
  /\ referTarget = "none"
  /\ referRequest = NoRequest
  /\ uaRefers = FALSE
  /\ finalNotifies = 0
  /\ last_notify_body = 0
  /\ finalPayload = NoPayload

ReferSend(r, m) == [r EXCEPT !.sent = Append(@, m)]
ReferEmit(r, name, originator) ==
  [r EXCEPT !.emitted = Append(@, [name |-> name, originator |-> originator])]

\* setTimeout(subscriptionExpired) stored in expire_timer without clearing it
armExpireTimer(r) ==
  [r EXCEPT !.orphans = IF r.expire_timer = "subscriptionExpired" THEN @ + 1 ELSE @,
            !.expire_timer = "subscriptionExpired"]

\* Refer.prototype.emitFinalNotify
emitFinalNotify(r) ==
  LET parsed == IF r.last_notify_body = 0 THEN 100 ELSE r.last_notify_body
      sessionEvent == IF parsed < 200 THEN "progress"
                      ELSE IF parsed < 300 THEN "started" ELSE "failed"
  IN [ReferEmit(r, "notify", "system")
        EXCEPT !.finalNotifies = Inc(@),
               !.finalPayload = NotifyPayload(parsed, sessionEvent, TRUE)]

\* Refer.prototype.notify(options); status_code 0: not given; finalFlag is
\* options.finalNotify ("undefined", "true", "false").  Notify.send needs the
\* dialog to build the NOTIFY.  The body the application gives is the sipfrag
\* of a 200; without one the body is made from the status code.
Refer_notify(r, status_code, hasBody, finalFlag) ==
  IF r.direction # "incoming" THEN Throw(r, "TypeError")
  ELSE IF hasBody /\ finalFlag = "undefined" THEN Throw(r, "TypeError")
  ELSE IF r.subscription_state # "active" THEN r
  ELSE LET code == IF status_code = 0 THEN 100 ELSE status_code
           finalNotify == finalFlag = "true" \/ code >= 200
       IN IF ~r.dialog THEN Throw(r, "TypeError")
          ELSE [ReferSend(ReferEmit(r, "notify", "local"), "NOTIFY")
                  EXCEPT !.subscription_state =
                           IF finalNotify THEN "terminated" ELSE "active",
                         !.last_notify_body = IF hasBody THEN 200 ELSE code,
                         !.notifiesInFlight = IF finalNotify THEN @ ELSE @ + 1]

\* a close() that tears the Refer down without looking at the subscription
Refer_close_Silent(r) ==
  [r EXCEPT !.expire_timer = "none",
            !.notify_timer = FALSE,
            !.dialog = IF r.kind = "out" THEN FALSE ELSE @,
            !.closed = TRUE]

\* Refer.prototype.close; the in-dialog Refer leaves the session's dialog
\* alone.  `delete this.ua.refers[this]` names the property String(this), not
\* this.id, so ua.refers keeps what it holds.
Refer_close(r) ==
  LET body == IF r.last_notify_body = 0 THEN 100 ELSE r.last_notify_body
      r1 == IF r.subscription_state = "active"
            THEN IF r.direction = "incoming"
                 THEN Then(Refer_notify(r, 0, FALSE, "true"),
                           LAMBDA x : [x EXCEPT !.last_notify_body = body])
                 ELSE emitFinalNotify(r)
            ELSE r
  IN Then(r1, LAMBDA x :
       [x EXCEPT !.expire_timer = "none",
                 !.notify_timer = FALSE,
                 !.dialog = IF x.kind = "out" THEN FALSE ELSE @,
                 !.closed = TRUE])

\* the 'failed' handler notify() puts on a non-final NOTIFY
notifyFailed(r) ==
  Refer_close([r EXCEPT !.subscription_state = "terminated"])

\* Refer.prototype.subscriptionExpired
subscriptionExpired(r) ==
  IF r.subscription_state = "terminated" THEN r
  ELSE Then(Refer_notify(r, 0, FALSE, "true"),
            LAMBDA x : [x EXCEPT !.orphans = IF x.expire_timer = "subscriptionExpired"
                                             THEN @ + 1 ELSE @,
                                 !.expire_timer = "none"])

\* Refer.prototype.accept
Refer_accept(r) ==
  IF r.direction # "incoming" THEN Throw(r, "TypeError")
  ELSE IF r.closed THEN r
  ELSE Then(Refer_notify(ReferSend(armExpireTimer(
                           [r EXCEPT !.subscription_state = "active"]), "202"),
                         0, FALSE, "undefined"),
            LAMBDA x : [x EXCEPT !.accepted = TRUE])

\* Refer.prototype.reject; status_code 0: not given
Refer_reject(r, status_code) ==
  LET code == IF status_code = 0 THEN 603 ELSE status_code
  IN IF r.direction # "incoming" THEN Throw(r, "TypeError")
     ELSE IF code < 300 \/ code >= 700 THEN Throw(r, "TypeError")
     ELSE IF r.closed THEN r
     ELSE IF r.accepted
     THEN Then(Refer_notify(r, code, FALSE, "undefined"), Refer_close)
     ELSE Refer_close([ReferSend(r, "reject") EXCEPT !.rejected = TRUE])

\* Refer.prototype.send; the in-dialog Refer is created on the session's dialog
Refer_send(r, kind, invalidReferTo) ==
  LET r1 == ReferEmit([r EXCEPT !.kind = kind, !.direction = "outgoing",
                                !.dialog = (kind = "in"),
                                !.uaRefers = (kind = "out")],
                      "newRefer", "local")
  IN IF invalidReferTo THEN ReferEmit(r1, "failed", "local")
     ELSE [ReferSend(r1, "REFER") EXCEPT !.notify_timer = TRUE, !.onWire = TRUE]

\* Refer.prototype.init_incoming; appCall is what the application does to the
\* refer inside its newRefer handler
Refer_init_incoming(r, kind, hasReferTo, hasContact, appCall) ==
  LET r0 == [r EXCEPT !.kind = kind, !.direction = "incoming"]
  IN IF ~hasReferTo THEN ReferSend(r0, "400")
     ELSE IF kind = "out" /\ ~hasContact THEN ReferSend(r0, "500")
     ELSE LET r1 == ReferEmit([r0 EXCEPT !.dialog = TRUE,
                                         !.uaRefers = (kind = "out"),
                                         !.remote_target =
                                           IF kind = "out" THEN "c0" ELSE @],
                              "newRefer", "remote")
              r2 == IF appCall = "accept" THEN Refer_accept(r1)
                    ELSE IF appCall = "reject" THEN Refer_reject(r1, 0)
                    ELSE r1
          IN Then(r2, LAMBDA x : IF ~x.accepted /\ ~x.rejected
                                 THEN Refer_accept(x) ELSE x)

\* Refer.prototype.receiveResponse / onRequestTimeout / onTransportError
Refer_receiveResponse(r, code) ==
  IF r.closed THEN r
  ELSE IF code < 200 THEN r
  ELSE IF code < 300 THEN ReferEmit(r, "accepted", "remote")
  ELSE Then(Refer_close(r), LAMBDA x : ReferEmit(x, "failed", "remote"))

Refer_onError(r) ==
  IF r.closed THEN r
  ELSE Then(Refer_close(r), LAMBDA x : ReferEmit(x, "failed", "system"))

\* Refer.prototype.onNotifyTimeout
onNotifyTimeout(r) ==
  IF r.closed \/ r.subscription_state # "pending" THEN r
  ELSE Refer_close(emitFinalNotify(r))

\* a receiveNotify that leaves the Refer open after the final NOTIFY
receiveNotify_NoClose(r, eventOk, headerState, typeOk, bodyOk, hasListener, hasContact) ==
  ReferEmit(ReferSend([r EXCEPT !.dialog = TRUE,
                                !.remote_target = IF r.dialog THEN @ ELSE "c0",
                                !.subscription_state = headerState], "200"),
            "notify", "remote")

\* a receiveNotify that does not look at the subscription state
receiveNotify_NoStateGuard(r, eventOk, headerState, typeOk, bodyOk, hasListener, hasContact) ==
  IF r.direction # "outgoing" THEN ReferSend(r, "481")
  ELSE IF ~eventOk \/ headerState = "none" \/ ~typeOk \/ ~bodyOk \/ ~hasListener
  THEN Refer_close(ReferSend(r, "400"))
  ELSE LET r1 == ReferSend([r EXCEPT !.dialog = TRUE,
                                     !.remote_target = IF r.dialog THEN @ ELSE "c0",
                                     !.subscription_state = headerState,
                                     !.notify_timer = FALSE,
                                     !.expire_timer = "none"], "200")
       IN IF headerState = "terminated" THEN Refer_close(r1)
          ELSE [r1 EXCEPT !.expire_timer = "close"]

\* Refer.prototype.receiveNotify; headerState is the state of the
\* Subscription-State header, "none" when the header is missing
receiveNotify(r, eventOk, headerState, typeOk, bodyOk, hasListener, hasContact) ==
  IF r.direction # "outgoing"
       \/ r.subscription_state \notin {"active", "pending"}
  THEN ReferSend(r, "481")
  ELSE IF ~eventOk THEN Refer_close(ReferSend(r, "489"))
  ELSE IF headerState = "none" THEN Refer_close(ReferSend(r, "400"))
  ELSE IF ~typeOk THEN Refer_close(ReferSend(r, "415"))
  ELSE IF ~bodyOk THEN Refer_close(ReferSend(r, "400"))
  ELSE IF ~hasListener
  THEN Refer_close([ReferSend(r, "603") EXCEPT !.subscription_state = "terminated"])
  ELSE IF ~r.dialog /\ ~hasContact
  THEN Then(Refer_close(r), LAMBDA x : ReferEmit(x, "failed", "remote"))
  ELSE LET r1 == ReferSend([r EXCEPT !.dialog = TRUE,
                                     !.remote_target = IF r.dialog THEN @ ELSE "c0",
                                     !.subscription_state = headerState,
                                     !.last_notify_body = r.fragCode,
                                     !.notify_timer = FALSE,
                                     !.expire_timer = "none"], "200")
           r2 == IF headerState = "terminated" THEN Refer_close(r1)
                 ELSE [r1 EXCEPT !.expire_timer = "close"]
       IN Then(r2, LAMBDA x :
            [ReferEmit(x, "notify", "remote")
               EXCEPT !.finalNotifies = IF headerState = "terminated"
                                        THEN Inc(@) ELSE @])

\* Refer.prototype.receiveRequest for a NOTIFY: the handler, then `return;`,
\* so what the dialog gets back is undefined (r.ret is FALSE)
Refer_receiveRequest(r, eventOk, headerState, typeOk, bodyOk, hasListener, hasContact) ==
  [receiveNotify(r, eventOk, headerState, typeOk, bodyOk, hasListener, hasContact)
     EXCEPT !.ret = FALSE]

\* Dialog.prototype.receiveRequest on the dialog of an out-of-dialog Refer, for
\* a NOTIFY: the check (lowCSeq: the CSeq is below remote_seqnum), the owner,
\* the target refresh with the Contact of the request
ReferDialog_receiveRequest(r, lowCSeq, eventOk, headerState, typeOk, bodyOk, hasListener, hasContact) ==
  LET r0 == [r EXCEPT !.inRequest = InRequest("NOTIFY", 0, hasContact)]
  IN IF lowCSeq THEN ReferSend(r0, "500")
     ELSE LET r1 == Refer_receiveRequest(r0, eventOk, headerState, typeOk,
                                         bodyOk, hasListener, hasContact)
          IN IF r1.ret /\ hasContact
             THEN [r1 EXCEPT !.remote_target = "c1"]
             ELSE r1

\* Refer.prototype.receiveSubscribe; expires is the Expires header: "zero",
\* "positive" or "none"
receiveSubscribe(r, eventOk, expires) ==
  IF r.direction # "incoming" THEN ReferSend(r, "481")
  ELSE IF r.subscription_state \notin {"active", "terminated"}
  THEN ReferSend(r, "403")
  ELSE IF ~eventOk THEN ReferSend(r, "489")
  ELSE IF expires = "zero"
  THEN Then(Refer_notify(r, 0, FALSE, "true"),
            LAMBDA x : Refer_close(ReferSend(x, "200")))
  ELSE ReferSend([r EXCEPT !.subscription_state = "active",
                           !.expire_timer = "subscriptionExpired"], "200")

\* the session object has not been initialised by init_incoming or connect
Fresh == request = "none" /\ tx = "none" /\ status = STATUS_NULL

\* the application holds the session: the UA has announced it
AppHolds == newRTCSessionCount > 0

\* a timer fires: through the handle that still refers to it, or as an orphan
FireHandle(w, n) == [w EXCEPT !.timers[n] = FALSE]
FireOrphan(w, k) == [w EXCEPT !.orphans[k] = @ - 1]

(***************************************************************************)
(* Actions: the incoming INVITE                                            *)
(***************************************************************************)
InitIncoming ==
  /\ Fresh
  /\ \E hasSdp, hasContact, expires, handle_media \in BOOLEAN, se \in SEValues :
       Commit(init_incoming(Cur, hasSdp, hasContact, expires, se, handle_media))

\* the application calls one of the closures newRTCSession handed to it
AppSdpValid ==
  /\ appCallbacks = "offered"
  /\ Commit(sdpValid([Cur EXCEPT !.appCallbacks = "used"]))

AppSdpInvalid ==
  /\ appCallbacks = "offered"
  /\ Commit(sdpInvalid([Cur EXCEPT !.appCallbacks = "used"]))

AppHandleMedia ==
  /\ appCallbacks = "offered"
  /\ Commit(handleMedia([Cur EXCEPT !.appCallbacks = "used"]))

\* the callbacks of rtcMediaHandler.onMessage('offer', ...)
OfferSucceeded ==
  /\ offerPending
  /\ Commit(newRTCSession(sdpValid([Cur EXCEPT !.offerPending = FALSE]),
                          "remote", FALSE))

OfferFailed ==
  /\ offerPending
  /\ Commit(sdpInvalid([Cur EXCEPT !.offerPending = FALSE]))

Answer ==
  /\ AppHolds
  /\ answerCalls < MaxAnswerCalls
  /\ \E withSdp, transportOk \in BOOLEAN :
       Commit(answer([Cur EXCEPT !.answerCalls = @ + 1], withSdp, transportOk))

\* the media handler callbacks of answer()
UserMediaSucceeded ==
  /\ answerChains["getUserMedia"] > 0
  /\ Commit([Cur EXCEPT !.answerChains["getUserMedia"] = @ - 1,
                        !.answerChains["addStream"] = @ + 1])

UserMediaFailed ==
  /\ answerChains["getUserMedia"] > 0
  /\ Commit(failed(reply([Cur EXCEPT !.answerChains["getUserMedia"] = @ - 1], 480),
                   "local", "USER_DENIED_MEDIA_ACCESS"))

StreamAdditionSucceeded ==
  /\ answerChains["addStream"] > 0
  /\ Commit([Cur EXCEPT !.answerChains["addStream"] = @ - 1,
                        !.answerChains["createAnswer"] = @ + 1])

StreamAdditionFailed ==
  /\ answerChains["addStream"] > 0
  /\ Commit(mediaFailed([Cur EXCEPT !.answerChains["addStream"] = @ - 1],
                        "WEBRTC_ERROR"))

AnswerCreationSucceeded ==
  /\ answerChains["createAnswer"] > 0
  /\ \E transportOk \in BOOLEAN :
       Commit(answerCreationSucceeded(
                [Cur EXCEPT !.answerChains["createAnswer"] = @ - 1], transportOk))

AnswerCreationFailed ==
  /\ answerChains["createAnswer"] > 0
  /\ Commit(mediaFailed([Cur EXCEPT !.answerChains["createAnswer"] = @ - 1],
                        "WEBRTC_ERROR"))

(***************************************************************************)
(* Actions: timers                                                         *)
(***************************************************************************)
\* sdpValid runs at most once, so these two timers are never overwritten
UserNoAnswerTimeout ==
  /\ timers["userNoAnswerTimer"]
  /\ Commit(userNoAnswerTimeout(FireHandle(Cur, "userNoAnswerTimer")))

ExpiresTimeout ==
  /\ timers["expiresTimer"]
  /\ Commit(expiresTimeout(FireHandle(Cur, "expiresTimer")))

Invite2xxRetransmission ==
  \/ /\ timers["invite2xxTimer"]
     /\ Commit(invite2xxRetransmission(FireHandle(Cur, "invite2xxTimer")))
  \/ /\ orphans["invite2xxTimer"] > 0
     /\ Commit(invite2xxRetransmission(FireOrphan(Cur, "invite2xxTimer")))

AckTimeout ==
  \/ /\ timers["ackTimer"]
     /\ Commit(ackTimeout(FireHandle(Cur, "ackTimer")))
  \/ /\ orphans["ackTimer"] > 0
     /\ Commit(ackTimeout(FireOrphan(Cur, "ackTimer")))

RefreshTimeout ==
  \/ /\ refresh # "none"
     /\ Commit(refreshAction([Cur EXCEPT !.refresh = "none"], refresh))
  \/ /\ orphans["refreshLocal"] > 0
     /\ Commit(refreshAction(FireOrphan(Cur, "refreshLocal"), "local"))
  \/ /\ orphans["refreshRemote"] > 0
     /\ Commit(refreshAction(FireOrphan(Cur, "refreshRemote"), "remote"))

(***************************************************************************)
(* Actions: requests from the network, the user API, the transport         *)
(***************************************************************************)
\* the UA hands a CANCEL to the session of the INVITE it cancels
ReceiveCancel ==
  /\ uaSessions
  /\ request = "incoming"
  /\ Commit(receiveRequest(Cur, "CANCEL"))

\* an in-dialog request reaches the session through one of its dialogs
ReceiveAck ==
  /\ uaDialogs # {}
  /\ Commit(receiveRequest(Cur, "ACK"))

ReceiveBye ==
  /\ uaDialogs # {}
  /\ Commit(receiveRequest(Cur, "BYE"))

\* terminate(): the calls made in a row from Confirmed on are counted, with
\* the BYE requests and the `ended` events they produce
Terminate ==
  /\ AppHolds
  /\ \E status_code \in StatusCodeOptions :
       LET r == terminate(Cur, status_code)
           counted == tcCalls > 0 \/ status = STATUS_CONFIRMED
           byes == Cardinality({i \in DOMAIN r.sent :
                                  r.sent[i].msg = "request" /\ r.sent[i].method = "BYE"})
           ends == Cardinality({i \in DOMAIN r.emitted : r.emitted[i].name = "ended"})
           valid == status_code = 0 \/ (status_code >= 200 /\ status_code < 700)
       IN CommitAll([r EXCEPT !.tcCalls = IF counted THEN Inc(@) ELSE 0,
                              !.tcByes = IF counted THEN @ + byes ELSE 0,
                              !.tcEnded = IF counted THEN @ + ends ELSE 0,
                              !.tcArgsOk = IF counted THEN @ /\ valid ELSE TRUE])

OnTransportError ==
  /\ request # "none"
  /\ Commit(onTransportError(Cur))

OnRequestTimeout ==
  /\ request = "outgoing"
  /\ Commit(onRequestTimeout(Cur))

(***************************************************************************)
(* Actions: the outgoing INVITE                                            *)
(***************************************************************************)
Connect ==
  /\ Fresh
  /\ \E withSdp, invalidTarget \in BOOLEAN :
       Commit(connect(Cur, withSdp, invalidTarget))

\* the media handler callbacks of sendInitialRequest()
OfferUserMediaSucceeded ==
  /\ offerChain = "getUserMedia"
  /\ Commit([Cur EXCEPT !.offerChain = "addStream"])

OfferUserMediaFailed ==
  /\ offerChain = "getUserMedia"
  /\ Commit(mediaFailed([Cur EXCEPT !.offerChain = "none"],
                        "USER_DENIED_MEDIA_ACCESS"))

OfferStreamAdditionSucceeded ==
  /\ offerChain = "addStream"
  /\ Commit([Cur EXCEPT !.offerChain = "createOffer"])

OfferStreamAdditionFailed ==
  /\ offerChain = "addStream"
  /\ Commit(mediaFailed([Cur EXCEPT !.offerChain = "none"], "WEBRTC_ERROR"))

OfferCreationSucceeded ==
  /\ offerChain = "createOffer"
  /\ Commit(offerCreationSucceeded([Cur EXCEPT !.offerChain = "none"]))

OfferCreationFailed ==
  /\ offerChain = "createOffer"
  /\ Commit(mediaFailed([Cur EXCEPT !.offerChain = "none"], "WEBRTC_ERROR"))

\* a response to the INVITE; a provisional response other than 100 may lack
\* the To tag, a final response carries one
ReceiveInviteResponse ==
  /\ inviteOnWire
  /\ responses < MaxResponses
  /\ \E code \in ResponseCodes, to_tag \in Tags \cup {NoTag},
        hasContact, hasBody \in BOOLEAN, se \in SEValues :
       /\ to_tag = NoTag => code = 180
       /\ code \in {100, 486} => (to_tag = "t1" /\ hasContact /\ hasBody /\ se = "none")
       /\ code = 180 => (hasBody /\ se = "none")
       /\ Commit(receiveInviteResponse(
                   [Cur EXCEPT !.responses = @ + 1,
                               !.received = Response(code, to_tag, hasContact, hasBody)],
                   code, to_tag, hasContact, hasBody, se))

\* the callbacks of rtcMediaHandler.onMessage('answer', ...)
AnswerSdpSucceeded ==
  /\ answerSdpPending > 0
  /\ Commit(answerSdpSucceeded([Cur EXCEPT !.answerSdpPending = @ - 1]))

AnswerSdpFailed ==
  /\ answerSdpPending > 0
  /\ Commit(answerSdpFailed([Cur EXCEPT !.answerSdpPending = @ - 1]))

Next ==
  \/ InitIncoming
  \/ AppSdpValid
  \/ AppSdpInvalid
  \/ AppHandleMedia
  \/ OfferSucceeded
  \/ OfferFailed
  \/ Answer
  \/ UserMediaSucceeded
  \/ UserMediaFailed
  \/ StreamAdditionSucceeded
  \/ StreamAdditionFailed
  \/ AnswerCreationSucceeded
  \/ AnswerCreationFailed
  \/ UserNoAnswerTimeout
  \/ ExpiresTimeout
  \/ Invite2xxRetransmission
  \/ AckTimeout
  \/ RefreshTimeout
  \/ ReceiveCancel
  \/ ReceiveAck
  \/ ReceiveBye
  \/ Terminate
  \/ OnTransportError
  \/ OnRequestTimeout
  \/ Connect
  \/ OfferUserMediaSucceeded
  \/ OfferUserMediaFailed
  \/ OfferStreamAdditionSucceeded
  \/ OfferStreamAdditionFailed
  \/ OfferCreationSucceeded
  \/ OfferCreationFailed
  \/ ReceiveInviteResponse
  \/ AnswerSdpSucceeded
  \/ AnswerSdpFailed

(***************************************************************************)
(* Message (Message.js 1-228)                                              *)
(***************************************************************************)
\* the Message after its constructor; call and arg name the handler that ran
\* last and the status code it was given, accepted and calls are history
MessageInit ==
  message = [direction |-> "null", closed |-> FALSE, applicant |-> FALSE,
             nist |-> "none", onWire |-> FALSE,
             sent |-> <<>>, emitted |-> <<>>, thrown |-> "none",
             call |-> "none", arg |-> 0,
             accepted |-> FALSE, calls |-> 0, responses |-> 0]

\* the record a handler of the Message works on
MessageCur(call, arg) ==
  [message EXCEPT !.sent = <<>>, !.emitted = <<>>, !.thrown = "none",
                  !.call = call, !.arg = arg]

MessageCommit(m) ==
  /\ message' = m
  /\ UNCHANGED <<sessionVars, referVars, dtmf>>

MessageEmit(m, name, originator, cause) ==
  [m EXCEPT !.emitted = Append(@, Event(name, originator, cause))]

\* request.reply on the MESSAGE, through its non-INVITE server transaction
\* (RFC 3261 17.2.2): a response is sent while Trying or Proceeding, a final
\* one completes the transaction, anything later is dropped
Message_reply(m, code) ==
  IF m.nist \in {"Trying", "Proceeding"}
  THEN [m EXCEPT !.sent = Append(@, Reply("MESSAGE", code)),
                 !.nist = IF code < 200 THEN "Proceeding" ELSE "Completed"]
  ELSE m

\* Message.prototype.send; targetOk: normalizeURI accepts the target
Message_send(m, given, targetOk) ==
  IF ~given THEN [m EXCEPT !.thrown = "TypeError"]
  ELSE LET m1 == MessageEmit([m EXCEPT !.direction = "outgoing",
                                       !.closed = FALSE,
                                       !.applicant = TRUE],
                             "newMessage", "local", "none")
       IN IF ~targetOk
          THEN MessageEmit(m1, "failed", "local", "INVALID_TARGET")
          ELSE [m1 EXCEPT !.sent = Append(@, Request("MESSAGE", NoDialog)),
                          !.onWire = TRUE]

\* Message.prototype.receiveResponse
Message_receiveResponse(m, code) ==
  IF m.closed THEN m
  ELSE IF code < 200 THEN m
  ELSE IF code < 300
  THEN MessageEmit([m EXCEPT !.applicant = FALSE], "succeeded", "remote", "none")
  ELSE MessageEmit([m EXCEPT !.applicant = FALSE], "failed", "remote", "REJECTED")

\* Message.prototype.onRequestTimeout / onTransportError
Message_onRequestTimeout(m) ==
  IF m.closed THEN m ELSE MessageEmit(m, "failed", "system", "REQUEST_TIMEOUT")

Message_onTransportError(m) ==
  IF m.closed THEN m ELSE MessageEmit(m, "failed", "system", "CONNECTION_ERROR")

\* Message.prototype.close
Message_close(m) == [m EXCEPT !.closed = TRUE, !.applicant = FALSE]

\* Message.prototype.accept
Message_accept(m) ==
  IF m.direction # "incoming" THEN [m EXCEPT !.thrown = "TypeError"]
  ELSE [Message_reply(m, 200) EXCEPT !.accepted = TRUE]

\* a reject that puts its response on the wire whatever the transaction says
Message_reject_Resends(m, status_code) ==
  [m EXCEPT !.sent = Append(@, Reply("MESSAGE", status_code))]

\* Message.prototype.reject; status_code 0: not given
Message_reject(m, status_code) ==
  LET code == IF status_code = 0 THEN 480 ELSE status_code
  IN IF m.direction # "incoming" THEN [m EXCEPT !.thrown = "TypeError"]
     ELSE IF code < 300 \/ code >= 700 THEN [m EXCEPT !.thrown = "TypeError"]
     ELSE Message_reply(m, code)

\* Message.prototype.init_incoming; appCall: what the application's
\* newMessage listener calls on the message before emit returns
Message_init_incoming(m, appCall) ==
  LET m1 == MessageEmit([m EXCEPT !.direction = "incoming", !.nist = "Trying"],
                        "newMessage", "remote", "none")
      m2 == IF appCall = "accept" THEN Message_accept(m1)
            ELSE IF appCall = "reject" THEN Message_reject(m1, 0)
            ELSE m1
  IN IF m2.nist \in {"Trying", "Proceeding"} THEN Message_reply(m2, 200) ELSE m2

(***************************************************************************)
(* Actions: the MESSAGE                                                    *)
(***************************************************************************)
MessageSend ==
  /\ message.direction = "null"
  /\ \E given, targetOk \in BOOLEAN :
       MessageCommit(Message_send(MessageCur("send", 0), given, targetOk))

MessageReceiveResponse ==
  /\ message.onWire
  /\ message.responses < MaxResponses
  /\ \E code \in {100, 200, 486} :
       MessageCommit(Message_receiveResponse(
                       [MessageCur("receiveResponse", code)
                          EXCEPT !.responses = @ + 1], code))

MessageOnRequestTimeout ==
  /\ message.onWire
  /\ MessageCommit([Message_onRequestTimeout(MessageCur("onRequestTimeout", 0))
                     EXCEPT !.onWire = FALSE])

MessageOnTransportError ==
  /\ message.onWire
  /\ MessageCommit([Message_onTransportError(MessageCur("onTransportError", 0))
                     EXCEPT !.onWire = FALSE])

\* the UA closes its applicants when it stops
MessageClose ==
  /\ message.applicant
  /\ MessageCommit(Message_close(MessageCur("close", 0)))

MessageInitIncoming ==
  /\ message.direction = "null"
  /\ \E appCall \in {"none", "accept", "reject"} :
       MessageCommit(Message_init_incoming(MessageCur("init_incoming", 0), appCall))

\* the application calls accept() or reject() on a message it was given
MessageAccept ==
  /\ message.direction # "null"
  /\ message.calls < MaxMessageCalls
  /\ MessageCommit(Message_accept([MessageCur("accept", 0) EXCEPT !.calls = @ + 1]))

MessageReject ==
  /\ message.direction # "null"
  /\ message.calls < MaxMessageCalls
  /\ \E status_code \in {0, 200, 603} :
       MessageCommit(Message_reject([MessageCur("reject", status_code)
                                       EXCEPT !.calls = @ + 1], status_code))

\* Timer J ends the completed server transaction
MessageTimerJ ==
  /\ message.nist = "Completed"
  /\ MessageCommit([MessageCur("timerJ", 0) EXCEPT !.nist = "Terminated"])

NextMessage ==
  \/ MessageSend
  \/ MessageReceiveResponse
  \/ MessageOnRequestTimeout
  \/ MessageOnTransportError
  \/ MessageClose
  \/ MessageInitIncoming
  \/ MessageAccept
  \/ MessageReject
  \/ MessageTimerJ

(***************************************************************************)
(* RTCSession.prototype.sendDTMF (Message.js)                              *)
(***************************************************************************)
\* the pause a ',' in the queue stands for, in milliseconds
CommaPause == 2000

\* the delay of a timer of the sendDTMF closure: CommaPause after a ',', the
\* duration and the inter-tone gap of the call after a tone
Timeout(duration, interToneGap, ms) ==
  [duration |-> duration, interToneGap |-> interToneGap, ms |-> ms]
NoTimeout == Timeout("none", "none", 0)

\* the characters /^[0-9A-D#*]+$/i accepts
ToneChars == {"0", "1", "2", "3", "4", "5", "6", "7", "8", "9",
              "A", "B", "C", "D", "a", "b", "c", "d", "#", "*"}

\* tones.toString().match(/^[0-9A-D#*]+$/i)
matchTones(tones) ==
  Len(tones) > 0 /\ \A i \in DOMAIN tones : tones[i] \in ToneChars

\* the tone strings the application passes (<<>>: the empty string)
ToneInputs == {<<>>, <<"1">>, <<"1", "#">>, <<",">>, <<"1", ",", "2">>, <<"1", "E">>}

\* options.duration and options.interToneGap: not given, not a decimal,
\* below the minimum, above the maximum, in range
DurationOptions == {"none", "invalid", "low", "high", "ok"}
InterToneGapOptions == {"none", "invalid", "low", "ok"}

\* ids names each tone of the queue by the call that accepted it and its place
\* in that call; sentIds names the tones of `sent`; done and abandoned record
\* the tones sent so far and those a failure found queued and not yet sent
DTMFInit ==
  dtmf = [tones |-> <<>>, closures |-> <<>>, inFlight |-> 0, calls |-> 0,
          call |-> "none", arg |-> <<>>, sent |-> <<>>, thrown |-> "none",
          scheduled |-> NoTimeout, ids |-> <<>>, sentIds |-> <<>>,
          done |-> {}, abandoned |-> {}]

\* the record a handler of the queue works on
DTMFCur(call, arg) ==
  [dtmf EXCEPT !.call = call, !.arg = arg, !.sent = <<>>, !.thrown = "none",
               !.scheduled = NoTimeout, !.sentIds = <<>>]

DTMFCommit(d) ==
  /\ dtmf' = d
  /\ UNCHANGED <<sessionVars, referVars, message>>

\* the closure sendDTMF of RTCSession.prototype.sendDTMF, run at `position`
\* (0-based) with the timeout of a tone of its call
sendDTMF_closure(d, st, position, toneTimeout) ==
  IF st = STATUS_TERMINATED \/ d.tones = <<>> \/ position >= Len(d.tones)
  THEN [d EXCEPT !.tones = <<>>, !.ids = <<>>]
  ELSE LET tone == d.tones[position + 1]
           timeout == IF tone = "," THEN Timeout("none", "none", CommaPause)
                      ELSE toneTimeout
           d1 == IF tone = "," THEN d
                 ELSE [d EXCEPT !.sent = Append(@, tone), !.inFlight = @ + 1,
                                !.sentIds = Append(@, d.ids[position + 1]),
                                !.done = @ \cup {d.ids[position + 1]}]
       IN [d1 EXCEPT !.scheduled = timeout,
                     !.closures = Append(@, [position |-> position + 1,
                                             toneTimeout |-> toneTimeout,
                                             timeout |-> timeout])]

\* RTCSession.prototype.sendDTMF(tones, options); given: tones is not undefined
sendDTMF(d, st, given, tones, durationOpt, interToneGapOpt) ==
  IF ~given THEN [d EXCEPT !.thrown = "TypeError"]
  ELSE IF st \notin {STATUS_CONFIRMED, STATUS_WAITING_FOR_ACK}
  THEN [d EXCEPT !.thrown = "InvalidStateError"]
  ELSE IF ~matchTones(tones) THEN [d EXCEPT !.thrown = "TypeError"]
  ELSE IF durationOpt = "invalid" \/ interToneGapOpt = "invalid"
  THEN [d EXCEPT !.thrown = "TypeError"]
  ELSE LET duration == IF durationOpt = "none" THEN "DEFAULT_DURATION"
                       ELSE IF durationOpt = "low" THEN "MIN_DURATION"
                       ELSE IF durationOpt = "high" THEN "MAX_DURATION"
                       ELSE "given"
           interToneGap == IF interToneGapOpt = "none" THEN "DEFAULT_INTER_TONE_GAP"
                           ELSE IF interToneGapOpt = "low" THEN "MIN_INTER_TONE_GAP"
                           ELSE "given"
           ids == [i \in 1..Len(tones) |-> <<d.calls, i>>]
       IN IF d.tones # <<>>
          THEN [d EXCEPT !.tones = @ \o tones, !.ids = @ \o ids]
          ELSE sendDTMF_closure([d EXCEPT !.tones = tones, !.ids = ids], st, 0,
                                Timeout(duration, interToneGap, 0))

\* a listener of `failed` that leaves the queue as it is
dtmfFailed_KeepsQueue(d) ==
  [d EXCEPT !.inFlight = @ - 1,
            !.abandoned = @ \cup ({d.ids[i] : i \in DOMAIN d.ids} \ d.done)]

\* the listener sendDTMF puts on `failed` of each DTMF it sends
dtmfFailed(d) ==
  [d EXCEPT !.tones = <<>>, !.ids = <<>>, !.inFlight = @ - 1,
            !.abandoned = @ \cup ({d.ids[i] : i \in DOMAIN d.ids} \ d.done)]

\* the sequence without its i-th element
RemoveAt(seq, i) == SubSeq(seq, 1, i - 1) \o SubSeq(seq, i + 1, Len(seq))

\* the application calls session.sendDTMF(tones, options)
SendDTMF ==
  /\ AppHolds
  /\ dtmf.calls < MaxDTMFCalls
  /\ \E given \in BOOLEAN, tones \in ToneInputs,
        durationOpt \in DurationOptions, interToneGapOpt \in InterToneGapOptions :
       /\ ~given => (tones = <<>> /\ durationOpt = "none" /\ interToneGapOpt = "none")
       /\ DTMFCommit(sendDTMF([DTMFCur("sendDTMF", tones) EXCEPT !.calls = @ + 1],
                              status, given, tones, durationOpt, interToneGapOpt))

\* a timer of a sendDTMF closure fires
DTMFTimer ==
  \E i \in DOMAIN dtmf.closures :
    LET c == dtmf.closures[i]
    IN DTMFCommit(sendDTMF_closure(
         [DTMFCur("timer", <<>>) EXCEPT !.closures = RemoveAt(@, i)],
         status, c.position, c.toneTimeout))

\* a DTMF that was sent fails
DTMFFailed ==
  /\ dtmf.inFlight > 0
  /\ DTMFCommit(dtmfFailed(DTMFCur("failed", <<>>)))

Init == SessionInit /\ ReferInit /\ MessageInit /\ DTMFInit

Spec == Init /\ [][Next]_vars

(***************************************************************************)
(* Actions: requests inside the confirmed dialog, re-INVITEs               *)
(***************************************************************************)
\* the methods of the in-dialog requests the model delivers
InDialogMethods == {"INVITE", "ACK", "BYE", "INFO"}

\* what the listener of `update` does with an incoming UPDATE
UpdateAppCalls == {"none", "accept", "reject", "provisional"}

\* the Dialog the UA finds for an in-dialog request: session.dialog or, while
\* there is none, the early dialog of the incoming session
RequestDialog ==
  IF dialog # NoDialog THEN dialog
  ELSE IF UasDialog \in earlyDialogs THEN UasDialog
  ELSE NoDialog

\* a status code the application passes to Reinvite.reject (0: none)
RejectCodes == {0, 200, 488}

\* the session is set up with the SDP the application gives: an INVITE comes
\* in and is answered, or an INVITE goes out and a 200 comes back
InDialogInitIncoming ==
  /\ Fresh
  /\ Commit(init_incoming(Cur, TRUE, TRUE, FALSE, "none", FALSE))

InDialogAnswer ==
  /\ AppHolds
  /\ answerCalls = 0
  /\ Commit(answer([Cur EXCEPT !.answerCalls = @ + 1], TRUE, TRUE))

InDialogConnect ==
  /\ Fresh
  /\ Commit(connect(Cur, TRUE, FALSE))

InDialogInviteResponse ==
  /\ inviteOnWire
  /\ responses = 0
  /\ Commit(receiveInviteResponse(
              [Cur EXCEPT !.responses = @ + 1,
                          !.received = Response(200, "t1", TRUE, TRUE)],
              200, "t1", TRUE, TRUE, "none"))

\* the application calls terminate() on a session that has not ended
InDialogTerminate ==
  /\ AppHolds
  /\ status # STATUS_TERMINATED
  /\ Commit(terminate(Cur, 0))

\* the UA finds session.dialog in ua.dialogs and hands it the request
DialogReceiveRequest ==
  /\ dialog # NoDialog
  /\ dialog \in uaDialogs
  /\ requests < MaxRequests
  /\ \E method \in InDialogMethods, cseq \in 1..MaxCSeq, hasContact \in BOOLEAN :
       /\ method # "INVITE" => ~hasContact
       /\ Commit(Dialog_receiveRequest([Cur EXCEPT !.requests = @ + 1],
                                       InRequest(method, cseq, hasContact)))

\* the application calls session.sendReinvite(options)
SendReinvite ==
  /\ AppHolds
  /\ dialog # NoDialog
  /\ \E sdpGiven \in BOOLEAN : Commit(sendReinvite(Cur, sdpGiven))

\* the RequestSender of an outgoing re-INVITE: a response, Timer B, a
\* transport error
ReinviteReceiveResponse ==
  /\ lastReinvite.direction = "outgoing"
  /\ \E code \in {180, 200, 488} :
       /\ lastReinvite.status \in
            (IF code = 200
             THEN {STATUS_INVITE_SENT, STATUS_1XX_RECEIVED, STATUS_CONFIRMED}
             ELSE {STATUS_INVITE_SENT, STATUS_1XX_RECEIVED})
       /\ Commit(Reinvite_receiveResponse(Cur, code))

ReinviteOnRequestTimeout ==
  /\ lastReinvite.direction = "outgoing"
  /\ lastReinvite.status \in {STATUS_INVITE_SENT, STATUS_1XX_RECEIVED}
  /\ Commit(Reinvite_onRequestTimeout(Cur))

ReinviteOnTransportError ==
  /\ lastReinvite.direction = "outgoing"
  /\ lastReinvite.status \in {STATUS_INVITE_SENT, STATUS_1XX_RECEIVED}
  /\ Commit(Reinvite_onTransportError(Cur))

\* the application calls a method of the Reinvite the `reinvite` event gave
\* it: sdpValid or sdpInvalid first, one of accept, reject at most once
ReinviteSdpValid ==
  /\ lastReinvite.direction = "incoming"
  /\ ~lastReinvite.sdpValidCalled /\ lastReinvite.answer = "none"
  /\ \E expires \in BOOLEAN :
       Commit(Reinvite_sdpValid([Cur EXCEPT !.lastReinvite.sdpValidCalled = TRUE],
                                expires))

ReinviteSdpInvalid ==
  /\ lastReinvite.direction = "incoming"
  /\ ~lastReinvite.sdpValidCalled /\ lastReinvite.answer = "none"
  /\ Commit(Reinvite_sdpInvalid([Cur EXCEPT !.lastReinvite.answer = "sdpInvalid"]))

ReinviteAccept ==
  /\ lastReinvite.status # "none"
  /\ lastReinvite.answer = "none"
  /\ \E transportOk \in BOOLEAN :
       Commit(Reinvite_accept([Cur EXCEPT !.lastReinvite.answer = "accept"],
                              transportOk))

ReinviteReject ==
  /\ lastReinvite.status # "none"
  /\ lastReinvite.answer = "none"
  /\ \E status_code \in RejectCodes :
       Commit(Reinvite_reject([Cur EXCEPT !.lastReinvite.answer = "reject",
                                          !.lastReinvite.status_code = status_code],
                              status_code))

\* a timer of the Reinvite fires
ReinviteFire(w, n) == [w EXCEPT !.lastReinvite.timers = @ \ {n}]

ReinviteProvisionalResponse ==
  /\ "provisionalResponse" \in lastReinvite.timers
  /\ Commit(Reinvite_provisionalResponse(ReinviteFire(Cur, "provisionalResponse")))

ReinviteAnswerTimeout ==
  \/ /\ "answer487" \in lastReinvite.timers
     /\ Commit(Reinvite_answerTimeout(ReinviteFire(Cur, "answer487"), 487))
  \/ /\ "answer480" \in lastReinvite.timers
     /\ Commit(Reinvite_answerTimeout(ReinviteFire(Cur, "answer480"), 480))

ReinviteInvite2xxRetransmission ==
  /\ "invite2xxTimer" \in lastReinvite.timers
  /\ Commit(Reinvite_invite2xxRetransmission(ReinviteFire(Cur, "invite2xxTimer")))

ReinviteAckTimeout ==
  /\ "ackTimer" \in lastReinvite.timers
  /\ Commit(Reinvite_ackTimeout(ReinviteFire(Cur, "ackTimer")))

\* a session that is set up with the SDP the application gives, and what
\* happens inside its dialog
NextInDialog ==
  \/ InDialogInitIncoming
  \/ AppSdpValid
  \/ InDialogAnswer
  \/ InDialogConnect
  \/ InDialogInviteResponse
  \/ InDialogTerminate
  \/ DialogReceiveRequest
  \/ SendReinvite
  \/ ReinviteReceiveResponse
  \/ ReinviteOnRequestTimeout
  \/ ReinviteOnTransportError
  \/ ReinviteSdpValid
  \/ ReinviteSdpInvalid
  \/ ReinviteAccept
  \/ ReinviteReject
  \/ ReinviteProvisionalResponse
  \/ ReinviteAnswerTimeout
  \/ ReinviteInvite2xxRetransmission
  \/ ReinviteAckTimeout

SpecInDialog == Init /\ [][NextInDialog]_vars

\* the same session with the scheduling the browser gives: a timer that was
\* set with window.setTimeout and not cleared fires (the timers of
\* Reinvite.sdpValid and Reinvite.successResponseSent); what the application
\* and the peer do is not forced
SpecInDialogLive ==
  /\ SpecInDialog
  /\ WF_vars(ReinviteProvisionalResponse)
  /\ WF_vars(ReinviteAnswerTimeout)
  /\ WF_vars(ReinviteInvite2xxRetransmission)
  /\ WF_vars(ReinviteAckTimeout)

(***************************************************************************)
(* Actions: requests of every method on the dialog of the session, the     *)
(* early dialog of an incoming session included                            *)
(***************************************************************************)
DialogMethods == InDialogMethods \cup {"UPDATE", "NOTIFY"}

\* the UA finds the dialog in ua.dialogs and hands it the request
DialogReceiveAnyRequest ==
  /\ RequestDialog # NoDialog
  /\ RequestDialog \in uaDialogs
  /\ requests < MaxRequests
  /\ \E method \in DialogMethods, cseq \in 1..MaxCSeq, hasContact \in BOOLEAN,
        hasBody \in BOOLEAN, appCall \in UpdateAppCalls, random \in RandomDigits :
       /\ method \notin TargetRefreshMethods => ~hasContact
       /\ method # "UPDATE" => ~hasBody /\ appCall = "none"
       \* Math.random() is called for the Retry-After header only
       /\ random # 0 =>
            \/ method = "INVITE" /\ lastInviteTxState(Cur) = "Proceeding"
            \/ method = "UPDATE"
                 /\ last_update_tx.state \in {"Trying", "Proceeding"}
       /\ Commit(Dialog_receiveRequest([Cur EXCEPT !.requests = @ + 1,
                                                   !.hasBody = hasBody,
                                                   !.appCall = appCall,
                                                   !.random = random],
                                       InRequest(method, cseq, hasContact)))

NextDialog ==
  \/ InDialogInitIncoming
  \/ AppSdpValid
  \/ InDialogAnswer
  \/ InDialogConnect
  \/ InDialogInviteResponse
  \/ InDialogTerminate
  \/ DialogReceiveAnyRequest
  \/ ReinviteReject

SpecDialog == Init /\ [][NextDialog]_vars

(***************************************************************************)
(* Actions: the UPDATEs the session sends                                  *)
(***************************************************************************)
\* the Session-Expires of a response: none, or with refresher uac or uas
ResponseSE == {"none", "uac", "uas"}

\* the application calls session.sendUpdate(options)
SendUpdate ==
  /\ AppHolds
  /\ outUpdates.pending < MaxUpdates
  /\ Commit(sendUpdate(Cur))

\* the RequestSender of an outgoing UPDATE: a response, Timer F, a transport
\* error
UpdateDone(w) == [w EXCEPT !.outUpdates.pending = @ - 1]

UpdateReceiveResponse ==
  /\ outUpdates.pending > 0
  /\ \E code \in {180, 200, 488}, se \in ResponseSE :
       /\ code # 200 => se = "none"
       /\ Commit(Update_receiveResponse(IF code < 200 THEN Cur ELSE UpdateDone(Cur),
                                        code, se))

UpdateOnRequestTimeout ==
  /\ outUpdates.pending > 0
  /\ Commit(Update_onRequestTimeout(UpdateDone(Cur)))

UpdateOnTransportError ==
  /\ outUpdates.pending > 0
  /\ Commit(Update_onTransportError(UpdateDone(Cur)))

NextUpdate ==
  \/ InDialogInitIncoming
  \/ AppSdpValid
  \/ InDialogAnswer
  \/ InDialogConnect
  \/ InDialogInviteResponse
  \/ InDialogTerminate
  \/ DialogReceiveRequest
  \/ SendUpdate
  \/ UpdateReceiveResponse
  \/ UpdateOnRequestTimeout
  \/ UpdateOnTransportError

SpecUpdate == Init /\ [][NextUpdate]_vars

\* the DTMF queue of a session that is set up and then ended
NextDTMF ==
  \/ InDialogConnect
  \/ InDialogInviteResponse
  \/ InDialogTerminate
  \/ SendDTMF
  \/ DTMFTimer
  \/ DTMFFailed

SpecDTMF == Init /\ [][NextDTMF]_vars

(***************************************************************************)
(* Actions of the Refer                                                    *)
(***************************************************************************)
ReferFresh == referDirection = "none"

\* status codes of the sipfrag a NOTIFY carries
SipfragCodes == {100, 200, 486}

\* the application has been handed the refer
ReferHeld ==
  \/ referDirection = "outgoing"
  \/ referDirection = "incoming" /\ (referDialog \/ closed)

ReferCall == [ReferCur EXCEPT !.calls = @ + 1]

ReferSendRequest ==
  /\ ReferFresh
  /\ \E kind \in {"out", "in"}, invalidReferTo \in BOOLEAN :
       LET r == Refer_send(ReferCur, kind, invalidReferTo)
       IN ReferCommitAll(r, IF scenario.step = 0 /\ kind = "out" /\ ~invalidReferTo
                            THEN ScenarioStep(r, <<>>) ELSE ScenarioOff)

ReferInitIncoming ==
  /\ ReferFresh
  /\ \E kind \in {"out", "in"}, hasReferTo, hasContact \in BOOLEAN,
        appCall \in {"none", "accept", "reject"} :
       ReferCommit(Refer_init_incoming(ReferCur, kind, hasReferTo, hasContact, appCall))

ReferAccept ==
  /\ ReferHeld
  /\ referCalls < MaxReferCalls
  /\ ReferCommit(Refer_accept(ReferCall))

ReferReject ==
  /\ ReferHeld
  /\ referCalls < MaxReferCalls
  /\ \E status_code \in {0, 200, 603} :
       ReferCommit(Refer_reject(ReferCall, status_code))

ReferNotify ==
  /\ ReferHeld
  /\ referCalls < MaxReferCalls
  /\ \E status_code \in {0, 200}, hasBody \in BOOLEAN,
        finalFlag \in {"undefined", "true", "false"} :
       ReferCommit(Refer_notify(ReferCall, status_code, hasBody, finalFlag))

\* a non-final NOTIFY is answered, or fails (error response, timeout,
\* transport error)
ReferNotifyAnswered ==
  /\ notifiesInFlight > 0
  /\ ReferCommit([ReferCur EXCEPT !.notifiesInFlight = @ - 1])

ReferNotifyFailed ==
  /\ notifiesInFlight > 0
  /\ ReferCommit(notifyFailed([ReferCur EXCEPT !.notifiesInFlight = @ - 1]))

ReferReceiveResponse ==
  /\ referOnWire
  /\ \E code \in {100, 202, 603} :
       LET r == Refer_receiveResponse(ReferCur, code)
       IN ReferCommitAll(r, IF scenario.step = 1 /\ code = 202
                            THEN ScenarioStep(r, <<>>) ELSE ScenarioOff)

ReferOnError ==
  /\ referOnWire
  /\ ReferCommit(Refer_onError(ReferCur))

ReferNotifyTimeout ==
  /\ notify_timer
  /\ ReferCommit(onNotifyTimeout([ReferCur EXCEPT !.notify_timer = FALSE]))

ReferExpireTimeout ==
  \/ /\ expire_timer = "subscriptionExpired"
     /\ ReferCommit(subscriptionExpired([ReferCur EXCEPT !.expire_timer = "none"]))
  \/ /\ referOrphans > 0
     /\ ReferCommit(subscriptionExpired([ReferCur EXCEPT !.orphans = @ - 1]))
  \/ /\ expire_timer = "close"
     /\ ReferCommit(Refer_close([ReferCur EXCEPT !.expire_timer = "none"]))

\* a NOTIFY for the refer: the UA finds the refer by its id
ReferReceiveNotify ==
  /\ referDirection # "none"
  /\ \E eventOk, typeOk, bodyOk, hasListener, hasContact \in BOOLEAN,
        headerState \in {"none", "active", "pending", "terminated"},
        fragCode \in SipfragCodes, lowCSeq \in BOOLEAN :
       /\ (~eventOk \/ ~typeOk \/ ~bodyOk \/ ~hasListener) =>
            (hasContact /\ headerState = "active")
       /\ (~eventOk => typeOk /\ bodyOk /\ hasListener)
       /\ (~typeOk => bodyOk /\ hasListener)
       /\ (~bodyOk => hasListener)
       \* the dialog of an out-of-dialog Refer gets the NOTIFY once it exists
       /\ lowCSeq => referKind = "out" /\ referDialog
       /\ LET rc == [ReferCur EXCEPT !.fragCode = fragCode]
              r == IF referKind = "out" /\ referDialog
                   THEN ReferDialog_receiveRequest(rc, lowCSeq, eventOk,
                          headerState, typeOk, bodyOk, hasListener, hasContact)
                   ELSE receiveNotify(rc, eventOk, headerState, typeOk,
                                      bodyOk, hasListener, hasContact)
              wellFormed == eventOk /\ typeOk /\ bodyOk /\ hasListener /\ hasContact
                              /\ ~lowCSeq
              payloads == IF \E i \in DOMAIN r.emitted : r.emitted[i].name = "notify"
                          THEN <<notifyPayload(r, fragCode)>> ELSE <<>>
          IN ReferCommitAll(r,
               IF /\ wellFormed
                  /\ \/ scenario.step = 2 /\ headerState = "active" /\ fragCode = 100
                     \/ scenario.step = 3 /\ headerState = "terminated"
                          /\ fragCode = 200
               THEN ScenarioStep(r, payloads) ELSE ScenarioOff)

\* a SUBSCRIBE on the dialog of the refer: the out-of-dialog Refer gets it
\* from its own dialog, the in-dialog Refer from its session
ReferReceiveSubscribe ==
  /\ referDirection # "none"
  /\ referKind = "out" => referDialog
  /\ \E eventOk \in BOOLEAN, expires \in {"zero", "positive", "none"} :
       ReferCommit(receiveSubscribe(ReferCur, eventOk, expires))

NextRefer ==
  \/ ReferSendRequest
  \/ ReferInitIncoming
  \/ ReferAccept
  \/ ReferReject
  \/ ReferNotify
  \/ ReferNotifyAnswered
  \/ ReferNotifyFailed
  \/ ReferReceiveResponse
  \/ ReferOnError
  \/ ReferNotifyTimeout
  \/ ReferExpireTimeout
  \/ ReferReceiveNotify
  \/ ReferReceiveSubscribe

SpecRefer == Init /\ [][NextRefer]_vars

\* close() is called on the refer from outside its own handlers
ReferClose ==
  /\ referDirection # "none"
  /\ referCalls < MaxReferCalls
  /\ ReferCommit(Refer_close(ReferCall))

NextReferClose ==
  \/ ReferSendRequest
  \/ ReferInitIncoming
  \/ ReferAccept
  \/ ReferReject
  \/ ReferNotify
  \/ ReferNotifyAnswered
  \/ ReferNotifyFailed
  \/ ReferReceiveResponse
  \/ ReferOnError
  \/ ReferNotifyTimeout
  \/ ReferExpireTimeout
  \/ ReferReceiveNotify
  \/ ReferReceiveSubscribe
  \/ ReferClose

SpecReferClose == Init /\ [][NextReferClose]_vars

SpecMessage == Init /\ [][NextMessage]_vars

TypeOK ==
  /\ status \in {STATUS_NULL, STATUS_INVITE_SENT, STATUS_1XX_RECEIVED,
                 STATUS_INVITE_RECEIVED, STATUS_WAITING_FOR_ANSWER,
                 STATUS_WAITING_FOR_ACK, STATUS_CANCELED, STATUS_TERMINATED,
                 STATUS_CONFIRMED}
  /\ dialog \in Tags \cup {UasDialog, NoDialog}
  /\ earlyDialogs \subseteq Tags \cup {UasDialog}
  /\ \A k \in TimerKinds : orphans[k] \in 0..(MaxResponses + MaxAnswerCalls + 2)
  /\ tx \in {"none", "Proceeding", "Accepted", "Completed", "Terminated"}
  /\ remote_seqnum \in 0..MaxCSeq
  /\ remote_target \in {"none", "c0", "c1"}
  /\ last_invite_tx \in {"none", "initial", "reinvite", "other"}
  /\ last_update_tx.state \in {"none", "Trying", "Proceeding", "Completed"}
  /\ last_update_tx.id \in 0..MaxRequests
  /\ retryAfter \in 0..10
  /\ lastReinvite.timers \subseteq ReinviteTimers
  /\ lastReinvite.reinviteEvents \in {0, 1}
  /\ requests \in 0..MaxRequests

(***************************************************************************)
(* Claims                                                                  *)
(***************************************************************************)
\* C1: a session that ever was Confirmed emits `started` exactly once, at most
\* one event out of `ended` / `failed`, and no session event after that one.
C1_StartedOnceTerminalLast ==
  everConfirmed =>
    /\ startedCount <= 1
    /\ terminalCount <= 1
    /\ ~lateEvent
    /\ (terminalCount >= 1 => startedCount = 1)


\* C2, as stated: once the subscription state of a REFER is 'terminated' no
\* operation changes it.
C2_TerminatedAbsorbing ==
  [][subscription_state = "terminated" => subscription_state' = "terminated"]_vars

\* C2, amended: a 'terminated' subscription never becomes 'pending'; it
\* becomes 'active' again only on an incoming refer, by a SUBSCRIBE that
\* extends the subscription or by accept(); on an outgoing refer it stays
\* 'terminated'.
C2_TerminatedLeftOnlyByResubscribe ==
  [][subscription_state = "terminated" =>
       \/ subscription_state' = "terminated"
       \/ /\ subscription_state' = "active"
          /\ referDirection = "incoming"
          /\ ReferReceiveSubscribe \/ ReferAccept]_vars

C2_Witness ==
  /\ wasTerminated
  /\ subscription_state = "active"
  /\ referDirection = "incoming"
  /\ referSent = <<"200">>

\* C3: while the session is Null, Canceled or Terminated none of its timers is
\* armed: no session timer (through its handle or not) and no session-refresh
\* timer of a dialog it has or had.
C3_NoTimerArmedWhenDead ==
  status \in {STATUS_NULL, STATUS_CANCELED, STATUS_TERMINATED} =>
    /\ \A n \in TimerNames : ~timers[n]
    /\ refresh = "none"
    /\ \A k \in TimerKinds : orphans[k] = 0

Has(seq, m) == \E i \in DOMAIN seq : seq[i] = m

\* C4: in WaitingForAck each firing of the retransmission timer sends the 200
\* again and re-arms the timer; once the ACK has been received no firing of
\* the retransmission timer sends anything.
C4_RetransmitUntilAck ==
  [][/\ (Invite2xxRetransmission /\ status = STATUS_WAITING_FOR_ACK) =>
          (Has(sent', Reply("INVITE", 200)) /\ timers'["invite2xxTimer"])
     /\ (Invite2xxRetransmission /\ ackReceived) => sent' = <<>>]_vars

\* C5: the ACK-wait timer firing in WaitingForAck cancels the retransmission
\* timer, sends a BYE, terminates the session and emits `ended` (remote,
\* NO_ACK); firing in any other state it sends nothing and emits nothing.
C5_TimerH ==
  [][/\ (AckTimeout /\ status = STATUS_WAITING_FOR_ACK) =>
          /\ ~timers'["invite2xxTimer"]
          /\ \E i \in DOMAIN sent' :
               sent'[i].msg = "request" /\ sent'[i].method = "BYE"
          /\ status' = STATUS_TERMINATED
          /\ emitted' = <<Event("ended", "remote", "NO_ACK")>>
     /\ (AckTimeout /\ status # STATUS_WAITING_FOR_ACK) =>
          (sent' = <<>> /\ emitted' = <<>>)]_vars

\* C6: terminate() in InviteSent before the 100 sets isCanceled and emits
\* `failed` (local, CANCELED); the first 1xx that arrives afterwards makes
\* the session send the CANCEL.
C6_CancelOnFirst1xx ==
  [][/\ (Terminate /\ status = STATUS_INVITE_SENT /\ ~received_100
           /\ thrown' = "none") =>
          (isCanceled' /\ emitted' = <<Event("failed", "local", "CANCELED")>>)
     /\ (isCanceled /\ inviteOnWire /\ responses = 0
           /\ received'.code >= 100 /\ received'.code < 200) =>
          Has(sent', Request("CANCEL", NoDialog))]_vars

\* C7: a 2xx that arrives after the application cancelled the outgoing
\* session (isCanceled set, or the CANCEL sent) is accepted and terminated:
\* an ACK and then a BYE on its dialog, and no `started`.
C7_AcceptAndTerminateAfterCancel ==
  [][((isCanceled \/ cancelSent) /\ inviteOnWire
        /\ received'.code >= 200 /\ received'.code < 300
        /\ received'.hasContact) =>
       /\ sent' = <<Request("ACK", received'.to_tag),
                    Request("BYE", received'.to_tag)>>
       /\ ~Has(emitted', Event("started", "remote", "none"))]_vars

\* the session is Confirmed on a dialog and a 2xx to the INVITE arrives
Is2xx(r)        == r.code >= 200 /\ r.code < 300

\* C8: in Confirmed a 2xx whose dialog id is the confirmed dialog's makes the
\* session send exactly one ACK on that dialog and nothing else: no event, no
\* BYE, status and confirmed dialog unchanged.
C8_DuplicateOkResendsAck ==
  [][(status = STATUS_CONFIRMED /\ dialog # NoDialog
        /\ Is2xx(received') /\ received'.to_tag = dialog) =>
       /\ sent' = <<Request("ACK", dialog)>>
       /\ emitted' = <<>>
       /\ status' = STATUS_CONFIRMED
       /\ dialog' = dialog]_vars

C8_Witness ==
  /\ status = STATUS_CONFIRMED
  /\ Is2xx(received) /\ received.to_tag = dialog
  /\ responses >= 2
  /\ startedCount = 1
  /\ sent = <<Request("ACK", dialog)>>

\* C9: in Confirmed on dialog t1 a 2xx with another To tag t2 causes no ACK on
\* t1 but an ACK and then a BYE on a dialog for t2; the session stays
\* Confirmed on t1 and emits nothing.
C9_ForkAcceptedAndTerminated ==
  [][(status = STATUS_CONFIRMED /\ dialog # NoDialog
        /\ Is2xx(received') /\ received'.to_tag # dialog) =>
       /\ sent' = <<Request("ACK", received'.to_tag),
                    Request("BYE", received'.to_tag)>>
       /\ emitted' = <<>>
       /\ status' = STATUS_CONFIRMED
       /\ dialog' = dialog]_vars

\* C10, as stated: two terminate() calls in a row, the first one made in
\* Confirmed, send exactly one BYE and emit exactly one `ended`.
C10_TerminateTwiceOneBye ==
  tcCalls >= 2 => (tcByes = 1 /\ tcEnded = 1)

\* C10, amended: terminate() calls in a row, the first one made in Confirmed,
\* send at most one BYE and emit `ended` once for each BYE; they send exactly
\* one BYE when every call was given no status_code or one in 200..699.
C10_TerminateTwiceAtMostOneBye ==
  tcCalls >= 2 =>
    /\ tcByes = tcEnded
    /\ tcByes <= 1
    /\ (tcArgsOk => tcByes = 1)

C10_Witness ==
  /\ tcCalls >= 2
  /\ tcArgsOk
  /\ tcByes = 1 /\ tcEnded = 1
  /\ status = STATUS_TERMINATED
  /\ thrown = "InvalidStateError"

\* C11, as stated: terminate() on a Terminated session completes without
\* signalling an error, sends nothing, emits nothing and leaves the status
\* Terminated.
C11_TerminateIdempotent ==
  [][(Terminate /\ status = STATUS_TERMINATED) =>
       /\ thrown' = "none"
       /\ sent' = <<>> /\ emitted' = <<>>
       /\ status' = STATUS_TERMINATED]_vars

\* C11, amended: terminate() on a Terminated session throws
\* InvalidStateError; it sends nothing, emits nothing and leaves the status
\* Terminated.
C11_TerminateOnTerminatedThrows ==
  [][(Terminate /\ status = STATUS_TERMINATED) =>
       /\ thrown' = "InvalidStateError"
       /\ sent' = <<>> /\ emitted' = <<>>
       /\ status' = STATUS_TERMINATED]_vars

\* answer() was never called and the session is not new, so the
\* InvalidStateError is terminate()'s
C11_Witness ==
  /\ status = STATUS_TERMINATED
  /\ thrown = "InvalidStateError"
  /\ answerCalls = 0
  /\ tcCalls = 0
  /\ terminalCount = 1

\* C18: creating a dialog never replaces the entry another live dialog has in
\* the UA dialog registry. (Within one session the call-id and the local tag
\* are fixed, so the registry key is the remote tag.)
C18_RegistryEntryNeverReplaced == ~replaced

\* C19: the UA emits `newRTCSession` exactly once per session: never twice,
\* and once by the time the INVITE is sent or the incoming INVITE awaits its
\* answer.
C19_NewRTCSessionOnce ==
  /\ newRTCSessionCount <= 1
  /\ status \in {STATUS_INVITE_SENT, STATUS_1XX_RECEIVED, STATUS_WAITING_FOR_ANSWER,
                 STATUS_WAITING_FOR_ACK, STATUS_CONFIRMED} => newRTCSessionCount = 1

\* C20: every event a handler emits carries an originator that is local,
\* remote or system.
C20_OriginatorInPayload ==
  \A i \in DOMAIN emitted : emitted[i].originator \in {"local", "remote", "system"}

(***************************************************************************)
(* C12: an in-dialog INVITE that arrives while the previous re-INVITE of   *)
(* the session is still active.                                            *)
(***************************************************************************)
\* the re-INVITE in lastReinvite has not completed
ReinviteActive ==
  lastReinvite.status \notin {"none", STATUS_CONFIRMED, STATUS_CANCELED,
                              STATUS_TERMINATED}

\* C12 as stated: every in-dialog INVITE received while a prior re-INVITE of
\* the session is active is answered 491, whatever the state of the cached
\* last INVITE server transaction.
C12_ActiveReinviteAlways491 ==
  [][(inRequest'.method = "INVITE" /\ ReinviteActive)
       => sent' = <<Reply("INVITE", 491)>>]_vars

\* C12 amended: an in-dialog INVITE received while a prior re-INVITE is
\* active is answered 500 when its CSeq is below remote_seqnum or the cached
\* last INVITE server transaction is Proceeding, and 491 otherwise; it never
\* becomes lastReinvite.
C12_ActiveReinvite500Or491 ==
  [][(inRequest'.method = "INVITE" /\ ReinviteActive)
       => /\ sent' = <<Reply("INVITE",
                             IF \/ (remote_seqnum # 0
                                      /\ inRequest'.cseq < remote_seqnum)
                                \/ lastInviteTxState(Cur) = "Proceeding"
                             THEN 500 ELSE 491)>>
          /\ lastReinvite' = lastReinvite]_vars

\* an INVITE was answered 491 while the previous re-INVITE is active
C12_Witness ==
  /\ inRequest.method = "INVITE"
  /\ ReinviteActive
  /\ sent = <<Reply("INVITE", 491)>>

\* an INVITE was answered 500 with the previous re-INVITE unanswered and the
\* CSeq in order
C12_Witness500 ==
  /\ inRequest.method = "INVITE"
  /\ ReinviteActive
  /\ inRequest.cseq >= remote_seqnum
  /\ sent = <<Reply("INVITE", 500)>>
(***************************************************************************)
(* C13: reject({status_code: 488}) on an incoming re-INVITE.               *)
(***************************************************************************)
\* the application's reject(488) on the incoming re-INVITE of a Confirmed
\* session, before any final response to it
C13_Reject488 ==
  /\ status = STATUS_CONFIRMED
  /\ lastReinvite.direction = "incoming"
  /\ lastReinvite.tx = "Proceeding"
  /\ lastReinvite.answer = "none"
  /\ lastReinvite'.answer = "reject"
  /\ lastReinvite'.status_code = 488

\* C13: when a Confirmed session has received a re-INVITE and the application
\* calls reject({status_code: 488}) on it, a 488 is sent, the `reinvite`
\* event has fired exactly once for that request, the session stays
\* Confirmed, its confirmed dialog is kept (and stays registered), and no
\* session event (`ended`, `failed` or other) is emitted.
C13_RejectKeepsSession ==
  [][C13_Reject488
       => /\ sent' = <<Reply("INVITE", 488)>>
          /\ lastReinvite'.reinviteEvents = 1
          /\ emitted' = <<>>
          /\ status' = STATUS_CONFIRMED
          /\ dialog' = dialog /\ dialog' # NoDialog
          /\ dialog' \in uaDialogs']_vars

\* reject(488) has just answered the re-INVITE of a Confirmed session
C13_Witness ==
  /\ lastReinvite.direction = "incoming"
  /\ lastReinvite.answer = "reject" /\ lastReinvite.status_code = 488
  /\ lastReinvite.status = STATUS_WAITING_FOR_ACK
  /\ sent = <<Reply("INVITE", 488)>>
  /\ status = STATUS_CONFIRMED
(***************************************************************************)
(* C14: a re-INVITE after its session has terminated.                      *)
(***************************************************************************)
\* C14: once the session is Terminated, the Reinvite emits none of its own
\* events (`succeeded`, `failed`, `completed`) in any later step in which a
\* timer of the Reinvite fires or a response or a timeout for it arrives
\* (the steps in which the application calls the Reinvite are left out).
C14_NoReinviteEventAfterTerminated ==
  [][(/\ status = STATUS_TERMINATED
      /\ lastReinvite'.answer = lastReinvite.answer
      /\ lastReinvite'.sdpValidCalled = lastReinvite.sdpValidCalled)
       => reinviteEmitted' = <<>>]_vars

(***************************************************************************)
(* C15: the 200 to an accepted re-INVITE.                                  *)
(***************************************************************************)
\* a timer n of the accepted re-INVITE fires while it waits for the ACK and
\* the session is Confirmed
C15_Fires(n) ==
  /\ status = STATUS_CONFIRMED
  /\ lastReinvite.answer = "accept"
  /\ lastReinvite.tx = "Accepted"
  /\ lastReinvite.status = STATUS_WAITING_FOR_ACK
  /\ lastReinvite'.status = STATUS_WAITING_FOR_ACK
  /\ n \in lastReinvite.timers
  /\ n \notin lastReinvite'.timers

\* C15: after accept() has sent the 200 to a re-INVITE, each firing of the
\* retransmission timer before the ACK sends the 200 again, and the ACK-wait
\* timer firing before the ACK sends a BYE and ends the session with `ended`,
\* cause NO_ACK.
C15_Retransmit200UntilAck ==
  [][/\ C15_Fires("invite2xxTimer") => sent' = <<Reply("INVITE", 200)>>
     /\ C15_Fires("ackTimer")
          => /\ \E i \in DOMAIN sent' :
                  sent'[i].msg = "request" /\ sent'[i].method = "BYE"
             /\ \E i \in DOMAIN emitted' :
                  emitted'[i].name = "ended" /\ emitted'[i].cause = "NO_ACK"
             /\ status' = STATUS_TERMINATED]_vars
(***************************************************************************)
(* C16, C17: the CSeq check of in-dialog requests.                         *)
(***************************************************************************)
\* C16: over the in-dialog requests a dialog is given, remote_seqnum never
\* decreases once set: it is adopted from the request when unset, advanced
\* when the request's CSeq is strictly greater, and left unchanged otherwise,
\* also when the request is rejected; no other step of the dialog changes it.
C16_RemoteSeqnumNeverDecreases ==
  [][(dialog # NoDialog /\ dialog' = dialog)
       => /\ remote_seqnum' >= remote_seqnum
          /\ remote_seqnum' =
               IF inRequest'.method = "none" THEN remote_seqnum
               ELSE IF remote_seqnum = 0 \/ inRequest'.cseq > remote_seqnum
               THEN inRequest'.cseq
               ELSE remote_seqnum]_vars

\* a request with a CSeq below a remote_seqnum that an earlier request advanced
C16_Witness ==
  /\ dialog # NoDialog
  /\ inRequest.method # "none"
  /\ inRequest.cseq < remote_seqnum
  /\ remote_seqnum > InitialCSeq

\* a dialog with remote_seqnum unset adopted the CSeq of its first request
C16_WitnessAdopted ==
  /\ dialog = "t1"
  /\ requests = 1
  /\ remote_seqnum = inRequest.cseq

\* C17: an in-dialog request whose CSeq is lower than remote_seqnum is
\* answered 500 unless it is an ACK, which gets no reply; in both cases the
\* request is not handed to the owner (nothing of the session changes, no
\* event) and remote_seqnum and remote_target are unchanged.
C17_LowCSeqRejected ==
  [][(inRequest'.method # "none" /\ inRequest'.cseq < remote_seqnum)
       => /\ sent' = IF inRequest'.method = "ACK" THEN <<>>
                     ELSE <<Reply(inRequest'.method, 500)>>
          /\ ~handed'
          /\ emitted' = <<>> /\ reinviteEmitted' = <<>>
          /\ remote_seqnum' = remote_seqnum
          /\ remote_target' = remote_target
          /\ last_invite_tx' = last_invite_tx
          /\ status' = status /\ dialog' = dialog
          /\ lastReinvite' = lastReinvite]_vars

\* a BYE or INVITE with a low CSeq was answered 500 and the session goes on
C17_Witness ==
  /\ inRequest.method \in {"INVITE", "BYE"}
  /\ inRequest.cseq < remote_seqnum
  /\ sent = <<Reply(inRequest.method, 500)>>
  /\ ~handed
  /\ status = STATUS_CONFIRMED

\* an ACK with a low CSeq got no reply
C17_WitnessAck ==
  /\ inRequest.method = "ACK"
  /\ inRequest.cseq < remote_seqnum
  /\ sent = <<>>
  /\ ~handed
(***************************************************************************)
(* C26: a transport error reported to the session.                         *)
(***************************************************************************)
\* C26: a transport error reported to a session that is not Terminated emits
\* exactly one event, terminal, with originator system and cause
\* CONNECTION_ERROR (`ended` when the session is Confirmed, `failed`
\* otherwise) and leaves the session Terminated; reported to a Terminated
\* session it emits nothing and sends nothing.
C26_TransportErrorTerminatesOnce ==
  [][OnTransportError
       => /\ status' = STATUS_TERMINATED
          /\ sent' = <<>>
          /\ thrown' = "none"
          /\ emitted' =
               IF status = STATUS_TERMINATED THEN <<>>
               ELSE <<Event(IF status = STATUS_CONFIRMED THEN "ended" ELSE "failed",
                            "system", "CONNECTION_ERROR")>>]_vars

\* a Confirmed session has just been ended by a transport error
C26_Witness ==
  /\ everConfirmed
  /\ status = STATUS_TERMINATED
  /\ emitted = <<Event("ended", "system", "CONNECTION_ERROR")>>

\* a session not yet established has just been failed by a transport error
C26_WitnessFailed ==
  /\ ~everConfirmed
  /\ status = STATUS_TERMINATED
  /\ sent = <<>>
  /\ emitted = <<Event("failed", "system", "CONNECTION_ERROR")>>
(***************************************************************************)
(* C28: Terminated as the last state of a session.                         *)
(***************************************************************************)
\* C28: once the status of a session is Terminated, no later step changes it
\* to another value or arms a session timer that was not armed.
C28_SessionTerminatedAbsorbing ==
  [][status = STATUS_TERMINATED
       => /\ status' = STATUS_TERMINATED
          /\ \A n \in TimerNames : timers'[n] => timers[n]]_vars
(***************************************************************************)
(* C29: responses to the initial INVITE that arrive in Confirmed.          *)
(***************************************************************************)
\* C29: a 1xx response, or a final response of 300 or above, to the initial
\* INVITE that an outgoing session receives while Confirmed leaves the status
\* Confirmed and emits no event (no `progress`, no `failed`).
C29_LateResponseKeepsConfirmed ==
  [][(/\ request = "outgoing"
      /\ status = STATUS_CONFIRMED
      /\ received'.code # 0
      /\ ~(received'.code >= 200 /\ received'.code < 300))
       => /\ status' = STATUS_CONFIRMED
          /\ emitted' = <<>>]_vars
(***************************************************************************)
(* C24: an incoming INVITE that init_incoming refuses.                     *)
(***************************************************************************)
\* C24: when init_incoming replies 415 (no body, or a Content-Type other than
\* application/sdp) or 500 (dialog creation failed), the session is
\* Terminated and `failed` has been emitted.
C24_RefusedInviteFailsSession ==
  [][(InitIncoming /\ \E i \in DOMAIN sent' : sent'[i].code \in {415, 500})
       => /\ status' = STATUS_TERMINATED
          /\ \E i \in DOMAIN emitted' : emitted'[i].name = "failed"]_vars
(***************************************************************************)
(* C21: reject() after accept() on an incoming MESSAGE.                    *)
(***************************************************************************)
\* C21 as stated: on an incoming MESSAGE that accept() was called on, a
\* following reject() is refused (the call signals an error) and sends no
\* second final response.
C21_RejectAfterAcceptRefused ==
  [][(message.direction = "incoming" /\ message.accepted /\ MessageReject)
       => /\ message'.thrown # "none"
          /\ message'.sent = <<>>]_vars

\* C21 amended: on an incoming MESSAGE that accept() was called on, a
\* following reject() with a valid status code (none, or 300..699) returns
\* without an error and hands its response to request.reply; no second final
\* response is sent, the server transaction having completed, and nothing is
\* emitted.  With another status code it throws TypeError, as it always does.
C21_RejectAfterAcceptDropped ==
  [][(message.direction = "incoming" /\ message.accepted /\ MessageReject)
       => /\ message'.sent = <<>>
          /\ message'.emitted = <<>>
          /\ message'.nist = message.nist
          /\ message'.thrown =
               IF message'.arg = 0 \/ (message'.arg >= 300 /\ message'.arg < 700)
               THEN "none" ELSE "TypeError"]_vars

\* reject(603) has returned normally on an accepted incoming MESSAGE
C21_Witness ==
  /\ message.direction = "incoming"
  /\ message.accepted
  /\ message.call = "reject" /\ message.arg = 603
  /\ message.thrown = "none"
  /\ message.sent = <<>>
(***************************************************************************)
(* C22: a SUBSCRIBE with Expires 0 on an incoming REFER subscription.      *)
(***************************************************************************)
\* the Refer is given a SUBSCRIBE with Event refer and Expires 0 in a state
\* in which it does not refuse a SUBSCRIBE
C22_Unsubscribe ==
  /\ referDirection = "incoming"
  /\ subscription_state \in {"active", "terminated"}
  /\ ReferCommit(receiveSubscribe(ReferCur, TRUE, "zero"))

\* C22: whenever an incoming REFER subscription accepts a SUBSCRIBE with
\* Event refer and Expires 0, a NOTIFY (final: Subscription-State
\* terminated) is sent, the SUBSCRIBE is answered 200 and the Refer is closed.
C22_UnsubscribeSendsFinalNotify ==
  [][C22_Unsubscribe
       => /\ \E i \in DOMAIN referSent' : referSent'[i] = "NOTIFY"
          /\ \E i \in DOMAIN referSent' : referSent'[i] = "200"
          /\ subscription_state' = "terminated"
          /\ closed']_vars
(***************************************************************************)
(* C23: an outgoing out-of-dialog REFER, accepted and notified twice.      *)
(***************************************************************************)
\* the names of the events the Refer emitted in the observed run
C23_Count(name) ==
  Cardinality({i \in DOMAIN scenario.events : scenario.events[i].name = name})

\* C23: an outgoing out-of-dialog REFER with a `notify` listener receives a
\* 202, a NOTIFY (Contact, sipfrag 100, Subscription-State active) and a
\* NOTIFY (sipfrag 200, Subscription-State terminated).  The Refer has then
\* emitted one `accepted`, two `notify` (sessionEvent progress with
\* finalNotify false, then started with finalNotify true) and no `failed`,
\* both NOTIFYs were answered 200, and it is closed with its dialog
\* terminated.
C23_ReferAcceptedAndNotified ==
  scenario.step = 4
    => /\ C23_Count("accepted") = 1
       /\ C23_Count("notify") = 2
       /\ C23_Count("failed") = 0
       /\ scenario.payloads =
            <<[sessionEvent |-> "progress", finalNotify |-> FALSE],
              [sessionEvent |-> "started", finalNotify |-> TRUE]>>
       /\ scenario.replies = <<"200", "200">>
       /\ closed
       /\ ~referDialog
       /\ subscription_state = "terminated"

\* the run has come to its end
C23_Witness == scenario.step = 4 /\ referKind = "out"

\* C25: the remote target of a dialog is replaced with the Contact of an
\* in-dialog request exactly when the request passed the check, is an INVITE,
\* UPDATE or NOTIFY, carries a Contact and was accepted by the owner; here
\* for the dialog of an outgoing out-of-dialog Refer: after a NOTIFY with a
\* Contact that the Refer answered with 200, the target is that Contact
C25_NotifyAnswered200RefreshesTarget ==
  (/\ referKind = "out"
   /\ referDirection = "outgoing"
   /\ referDialog
   /\ referRequest.method = "NOTIFY"
   /\ referRequest.hasContact
   /\ referSent = <<"200">>)
    => referTarget = "c1"

\* the in-dialog request of the step has a CSeq number the dialog lets through
C30_Passes ==
  /\ inRequest'.method # "none"
  /\ ~(remote_seqnum # 0 /\ inRequest'.cseq < remote_seqnum)

\* what C30 says of a step, for the requests that satisfy `arrives`
C30_Step(arrives) ==
  /\ (arrives /\ inRequest'.method = "INVITE"
       /\ lastInviteTxState(Cur) = "Proceeding")
     => /\ sent' = <<Reply("INVITE", 500)>>
        /\ retryAfter' \in 1..10
        /\ ~handed'
        /\ last_invite_tx' = last_invite_tx
        /\ lastReinvite' = lastReinvite
        /\ tx' = tx
  /\ (arrives /\ inRequest'.method = "UPDATE"
       /\ last_update_tx.state \in {"Trying", "Proceeding"})
     => /\ sent' = <<Reply("UPDATE", 500)>>
        /\ retryAfter' \in 1..10
        /\ ~handed'
        /\ last_update_tx' = last_update_tx
  /\ (arrives /\ inRequest'.method = "INVITE"
       /\ lastInviteTxState(Cur) # "Proceeding")
     => /\ handed'
        /\ last_invite_tx' \in {"reinvite", "other"}
        /\ retryAfter' = 0
  /\ (arrives /\ inRequest'.method = "UPDATE"
       /\ last_update_tx.state \notin {"Trying", "Proceeding"})
     => /\ handed'
        /\ last_update_tx'.id = requests'
        /\ retryAfter' = 0

\* C30 (as stated): one modifier in progress per method.  An in-dialog INVITE
\* that comes while the cached INVITE server transaction is Proceeding, and
\* an in-dialog UPDATE that comes while the cached UPDATE server transaction
\* is Trying or Proceeding, get a 500 with a Retry-After of 1 to 10, are not
\* handed to the owner and leave the cached transaction in place; any other
\* INVITE or UPDATE has its transaction cached.
C30_OneModifierPerMethod ==
  [][C30_Step(inRequest'.method # "none")]_vars

\* C30 (amended): the same, for the INVITEs and UPDATEs whose CSeq number is
\* not below the remote_seqnum of the dialog
C30_OneModifierPerMethodAfterCSeq ==
  [][C30_Step(C30_Passes)]_vars

\* an UPDATE was refused while an earlier one was unanswered
C30_Witness ==
  /\ inRequest.method = "UPDATE"
  /\ sent = <<Reply("UPDATE", 500)>>
  /\ retryAfter = 10
  /\ ~handed
  /\ last_update_tx.state = "Trying"
  /\ last_update_tx.id < requests

C30_WitnessProceeding ==
  /\ inRequest.method = "UPDATE"
  /\ sent = <<Reply("UPDATE", 500)>>
  /\ retryAfter = 1
  /\ last_update_tx.state = "Proceeding"

\* an INVITE was refused while the INVITE before it was unanswered
C30_WitnessInvite ==
  /\ inRequest.method = "INVITE"
  /\ sent = <<Reply("INVITE", 500)>>
  /\ retryAfter \in 1..10
  /\ ~handed

\* an UPDATE was let through and answered: its transaction is the cached one
C30_WitnessCached ==
  /\ inRequest.method = "UPDATE"
  /\ handed
  /\ last_update_tx = UpdateTx(requests, "Completed")
  /\ requests > 1

\* the owner of the session's dialog accepted the in-dialog request of the
\* step: a Reinvite took the INVITE, the UPDATE was answered with 200, or the
\* request is one RTCSession.receiveRequest lets through
C25_OwnerAccepted ==
  /\ handed'
  /\ thrown' = "none"
  /\ inRequest'.method = "INVITE" =>
       (lastReinvite'.status = STATUS_INVITE_RECEIVED /\ sent' = <<>>)
  /\ inRequest'.method = "UPDATE" =>
       (\E i \in DOMAIN sent' : sent'[i] = Reply("UPDATE", 200))

\* the rule of C25 on the dialog of a session whose target is still the
\* Contact the dialog was made with: an in-dialog request puts its Contact in
\* remote_target exactly when it is an INVITE, UPDATE or NOTIFY with a Contact
\* that the owner accepted
C25_SessionDialogTargetRefresh ==
  [][(inRequest'.method # "none" /\ remote_target = "c0")
       => (remote_target' = "c1"
             <=> /\ inRequest'.method \in TargetRefreshMethods
                 /\ inRequest'.hasContact
                 /\ C25_OwnerAccepted)]_vars

\* an UPDATE with a Contact was refused with 488, an INVITE with 491
C25_WitnessUpdate488 ==
  /\ inRequest = InRequest("UPDATE", InitialCSeq, TRUE)
  /\ sent = <<Reply("UPDATE", 488)>>
  /\ remote_target = "c0"

C25_WitnessInvite491 ==
  /\ inRequest.method = "INVITE"
  /\ inRequest.hasContact
  /\ sent = <<Reply("INVITE", 491)>>
  /\ remote_target = "c0"

C25_WitnessRefreshed ==
  /\ inRequest.method = "UPDATE"
  /\ remote_target = "c1"

\* the tone string has a ',' and, but for its commas, only tone characters
C27_HasComma(tones) ==
  /\ \E i \in DOMAIN tones : tones[i] = ","
  /\ \A i \in DOMAIN tones : tones[i] \in ToneChars \cup {","}

\* C27: sendDTMF on a Confirmed session accepts a tone string with a ',' in
\* it (no exception, the tones are in the queue), and a ',' of the queue makes
\* the closure send no DTMF and set its next timer to 2000 ms
C27_CommaAcceptedAndPauses ==
  [][/\ (dtmf'.call = "sendDTMF" /\ dtmf' # dtmf /\ status = STATUS_CONFIRMED
          /\ C27_HasComma(dtmf'.arg))
        => /\ dtmf'.thrown = "none"
           /\ dtmf'.tones # <<>>
     /\ (dtmf'.call \in {"sendDTMF", "timer"} /\ dtmf' # dtmf
          /\ dtmf'.thrown = "none"
          /\ Len(dtmf'.closures) > Len(dtmf.closures) - (IF dtmf'.call = "timer" THEN 1 ELSE 0)
          /\ dtmf'.tones[dtmf'.closures[Len(dtmf'.closures)].position] = ",")
        => /\ dtmf'.sent = <<>>
           /\ dtmf'.scheduled.ms = CommaPause]_vars

\* no ',' is ever in the queue
C27_NoCommaQueued ==
  \A i \in DOMAIN dtmf.tones : dtmf.tones[i] # ","

\* sendDTMF took tones on a Confirmed session and tones were appended to a
\* queue that was being sent
C27_WitnessQueued ==
  /\ status = STATUS_CONFIRMED
  /\ dtmf.call = "sendDTMF"
  /\ dtmf.thrown = "none"
  /\ Len(dtmf.tones) > Len(dtmf.arg)

\* the step is a call of sendReinvite with options.sdp given
C31_Call == AppHolds /\ dialog # NoDialog /\ Commit(sendReinvite(Cur, TRUE))

\* the step puts a new Reinvite in lastReinvite
C31_NewReinvite ==
  /\ lastReinvite' # lastReinvite
  /\ lastReinvite'.status \in {STATUS_INVITE_SENT, STATUS_INVITE_RECEIVED}
  /\ lastReinvite'.answer = "none"
  /\ ~lastReinvite'.sdpValidCalled
  /\ lastReinvite'.timers = {}

C31_WitnessSecond ==
  /\ lastReinvite.status = STATUS_INVITE_SENT
  /\ sent = <<Request("INVITE", dialog)>>
  /\ last_invite_tx = "reinvite"

\* C32: while the session is Terminated, ua.dialogs holds no dialog of the
\* session (its confirmed dialog, its early dialogs and the dialogs made for
\* other branches are gone) and ua.sessions does not hold the session
C32_TerminatedLeavesNoDialog ==
  status = STATUS_TERMINATED => (uaDialogs = {} /\ ~uaSessions)

\* the incoming re-INVITE the application rejected with reject() or
\* sdpInvalid() has not completed
C33_RejectedWaiting ==
  /\ lastReinvite.direction = "incoming"
  /\ lastReinvite.answer \in {"reject", "sdpInvalid"}
  /\ lastReinvite.status = STATUS_WAITING_FOR_ACK

\* C33: after an incoming re-INVITE was rejected, by reject() or by
\* sdpInvalid(), it eventually counts as completed while the session is still
\* Confirmed (so that the next re-INVITE is not answered 491 and sendReinvite
\* does not raise), whether or not an ACK reaches receiveRequest
C33_RejectedReinviteCompletes ==
  C33_RejectedWaiting ~> (reinviteDone(Cur) \/ status # STATUS_CONFIRMED)

\* C33, the consequence in one step: a re-INVITE that arrives on the Confirmed
\* session after the rejection is not answered 491
C33_NextReinviteNot491 ==
  [][(C33_RejectedWaiting /\ status = STATUS_CONFIRMED
      /\ inRequest'.method = "INVITE" /\ requests' = requests + 1)
     => sent' # <<Reply("INVITE", 491)>>]_vars

\* C34: when a DTMF fails the queue is abandoned: no tone that was queued and
\* not yet sent at that moment is sent afterwards
C34_FailureAbandonsQueue == dtmf.abandoned \cap dtmf.done = {}

\* a failure found tones queued, and a timer of the chain fired afterwards
\* without sending anything
C34_Witness ==
  /\ dtmf.abandoned # {}
  /\ dtmf.call = "timer"
  /\ dtmf.sent = <<>>
  /\ dtmf.tones = <<>>

\* after a failure that found tones queued, tones of a later call are sent
C34_WitnessLaterCall ==
  /\ dtmf.abandoned # {}
  /\ dtmf.call = "timer"
  /\ dtmf.sent # <<>>

\* tone a was accepted before tone b
C35_Before(a, b) == a[1] < b[1] \/ (a[1] = b[1] /\ a[2] < b[2])

\* the tone `id` is sent in its turn: not sent before, after every tone sent
\* so far, and right after the tone before it in its call
C35_InTurn(id, sentBefore) ==
  /\ id \notin sentBefore
  /\ \A a \in sentBefore : C35_Before(a, id)
  /\ id[2] > 1 => <<id[1], id[2] - 1>> \in sentBefore

\* C35: over sendDTMF calls, failures and timers, at most one chain of timers
\* is active, and each accepted tone is sent at most once, in the order of
\* acceptance, a queue started after a failure from its first tone without
\* skipping or repeating
C35_OneChainInOrder ==
  [][/\ Len(dtmf'.closures) <= 1
     /\ dtmf' # dtmf =>
          \A i \in DOMAIN dtmf'.sentIds : C35_InTurn(dtmf'.sentIds[i], dtmf.done)]_vars

\* the step in which the dialog hands the session an UPDATE with or without
\* a body whose `update` listener makes the call appCall
C36_Update(hasBody, appCall) ==
  /\ RequestDialog # NoDialog
  /\ RequestDialog \in uaDialogs
  /\ \E cseq \in 1..MaxCSeq, hasContact \in BOOLEAN :
       Commit(Dialog_receiveRequest([Cur EXCEPT !.requests = @ + 1,
                                                !.hasBody = hasBody,
                                                !.appCall = appCall],
                                    InRequest("UPDATE", cseq, hasContact)))
  /\ handed'

\* the final responses of the last handler to the UPDATE
C36_Finals(out) ==
  SelectSeq(out, LAMBDA m : m.msg = "reply" /\ m.method = "UPDATE" /\ m.code >= 200)

\* the response C36 gives for an UPDATE
C36_Code(hasBody, appCall) ==
  IF appCall = "accept" THEN 200
  ELSE IF appCall = "reject" THEN 480
  ELSE IF hasBody THEN 488
  ELSE 200

\* C36: every in-dialog UPDATE handed to the session gets exactly one final
\* response: that of the application when it called accept() or reject()
\* during `update`, else 200 when the UPDATE has no Content-Type and no body
\* and 488 when it has; only a 200 reports the request to the dialog as
\* accepted (the Contact of the request becomes the remote target)
C36_UpdateAnsweredOnce ==
  [][\A hasBody \in BOOLEAN, appCall \in UpdateAppCalls :
       C36_Update(hasBody, appCall)
         => /\ C36_Finals(sent') = <<Reply("UPDATE", C36_Code(hasBody, appCall))>>
            /\ (C36_Code(hasBody, appCall) # 200 /\ inRequest'.hasContact)
                 => remote_target' = remote_target
            /\ (C36_Code(hasBody, appCall) = 200 /\ inRequest'.hasContact)
                 => remote_target' = "c1"]_vars

\* the step in which a 2xx with the Session-Expires refresher se comes back
\* for an outgoing UPDATE
C37_2xx(se) ==
  /\ outUpdates.pending > 0
  /\ Commit(Update_receiveResponse(UpdateDone(Cur), 200, se))

\* C37: a 2xx to an outgoing UPDATE that arrives while the session is not
\* Terminated makes the confirmed dialog process the session-timer headers of
\* the response and the Update emit `succeeded`, also while the session is
\* still WaitingForAck
C37_2xxProcessed ==
  [][\A se \in ResponseSE :
       (C37_2xx(se) /\ status # STATUS_TERMINATED)
         => /\ refresh' = processSessionTimerHeaders(Cur, se, FALSE).refresh
            /\ outUpdates'.emitted = <<Event("succeeded", "remote", "none")>>]_vars

\* the step in which close() is called on the Refer
C38_Close ==
  /\ referDirection # "none"
  /\ referCalls < MaxReferCalls
  /\ ReferCommit(Refer_close(ReferCall))

\* the Refer is torn down: timers cleared, marked closed
C38_TornDown == closed' /\ expire_timer' = "none" /\ ~notify_timer'

\* the final notify emitFinalNotify makes up from last_notify_body
C38_FinalPayload ==
  IF last_notify_body = 0 THEN NotifyPayload(100, "progress", TRUE)
  ELSE NotifyPayload(last_notify_body,
                     IF last_notify_body < 200 THEN "progress"
                     ELSE IF last_notify_body < 300 THEN "started" ELSE "failed",
                     TRUE)

\* C38: close() on a Refer with an active subscription sends the NOTIFY that
\* terminates it (incoming) or emits to the listeners a `notify` of originator
\* system with finalNotify true made from the last sipfrag received, or from
\* 100 Trying (outgoing), and then tears the Refer down; with a pending or
\* terminated subscription it sends and emits nothing
C38_CloseWithActive ==
  [][C38_Close =>
       /\ referThrown' = "none"
       /\ C38_TornDown
       /\ IF subscription_state = "active" /\ referDirection = "incoming"
          THEN /\ referSent' = <<"NOTIFY">>
               /\ subscription_state' = "terminated"
               /\ finalPayload' = NoPayload
          ELSE IF subscription_state = "active"
          THEN /\ referSent' = <<>>
               /\ referEmitted' = <<[name |-> "notify", originator |-> "system"]>>
               /\ finalPayload' = C38_FinalPayload
          ELSE /\ referSent' = <<>>
               /\ referEmitted' = <<>>
               /\ finalPayload' = NoPayload]_vars

\* close() was called on an incoming Refer with an active subscription
C38_Witness ==
  /\ referDirection = "incoming"
  /\ closed
  /\ referSent = <<"NOTIFY">>
  /\ subscription_state = "terminated"
  /\ last_notify_body = 100
  /\ referCalls > 0

\* close() was called on an outgoing Refer with an active subscription that
\* had taken a NOTIFY
C38_WitnessOutgoing ==
  /\ referDirection = "outgoing"
  /\ closed
  /\ finalPayload.sipFrag = 200
  /\ referCalls > 0

\* close() was called on a Refer whose subscription was pending
C38_WitnessPending ==
  /\ closed
  /\ subscription_state = "pending"
  /\ referCalls > 0
  /\ referSent = <<>> /\ referEmitted = <<>>

\* the last handler emitted a `notify` event on the Refer
C39_NotifyEmitted(events) == \E i \in DOMAIN events : events[i].name = "notify"

\* C39: an outgoing Refer emits at most one `notify` with finalNotify true in
\* its lifetime, and no `notify` at all once it is closed, whatever NOTIFYs,
\* timers, timeouts, transport errors and close() calls come
C39_OneFinalNotify ==
  [][referDirection' = "outgoing"
       => /\ finalNotifies' <= 1
          /\ closed => ~C39_NotifyEmitted(referEmitted')]_vars

\* C40: an out-of-dialog Refer that has been closed is no longer in ua.refers
\* under the id it was registered with
C40_ClosedNotRegistered == (referKind = "out" /\ closed) => ~uaRefers

=============================================================================
